---- MODULE Spec2Model ----
(***************************************************************************)
(* A model of node-id3tag (src/index.ts, class NodeID3, second listing at  *)
(* lines 968..2134; alias tables in src/frame-definitions.js).              *)
(*                                                                          *)
(* A Buffer is a sequence of bytes 0..255 (TLA+ sequences are 1-based, the  *)
(* code's offsets 0-based: At(b, i) reads offset i).  A JavaScript string   *)
(* is a sequence of code points.  Frame identifiers and aliases are TLA+    *)
(* strings; FrameIdBytes gives the four ASCII bytes of an identifier.       *)
(***************************************************************************)
EXTENDS Integers, Sequences, FiniteSets, TLC

VARIABLES pc, op, arg, buffer, result, copyRangeChecked, file, calls

vars == <<pc, op, arg, buffer, result, copyRangeChecked, file, calls>>

(***************************************************************************)
(* Bounds of the model.                                                     *)
(***************************************************************************)
\* size digits 0..MaxDigit and 127-MaxDigit..127 are tried in each 7-bit group
MaxDigit == 1

\* the input strings of text frames have up to MaxStrLen characters
MaxStrLen == 2

\* the input arrays of text frames have up to MaxArr elements
MaxArr == 2

\* a foreign buffer holds up to MaxPrefix bytes in front of its tag
MaxPrefix == 21

\* a frame body ends with up to MaxZeros zero bytes of padding
MaxZeros == 3

\* the largest image has LargeImage bytes, so that a tag passes 127 bytes
LargeImage == 130

\* a COMM / USLT frame body handed to its reader has up to MaxBody bytes
MaxBody == 4

\* a tag handed to the reader holds up to MaxFrames frames
MaxFrames == 3

\* the short images have up to MaxImage bytes
MaxImage == 3

(***************************************************************************)
(* Buffers.                                                                 *)
(***************************************************************************)
Byte == 0..255

\* buffer[i] of the code: the byte at 0-based offset i, -1 for undefined
At(b, i) == IF i >= 0 /\ i < Len(b) THEN b[i + 1] ELSE -1

\* Buffer.from([x]): undefined becomes 0
ByteOr0(x) == IF x < 0 THEN 0 ELSE x

\* Buffer.alloc(n): n zero bytes
Zeros(n) == [i \in 1..n |-> 0]

\* buf.slice(from, to), 0-based, to exclusive, both clamped as Buffer.slice does
Slice(b, from, to) ==
    LET f == IF from < 0 THEN 0 ELSE IF from > Len(b) THEN Len(b) ELSE from
        t == IF to < f THEN f ELSE IF to > Len(b) THEN Len(b) ELSE to
    IN  [i \in 1..(t - f) |-> b[f + i]]

SliceFrom(b, from) == Slice(b, from, Len(b))

\* buf.writeUInt32BE(n) for a length n (below 2^31)
UInt32BE(n) ==
    << (n \div 16777216) % 256, (n \div 65536) % 256, (n \div 256) % 256, n % 256 >>

(***************************************************************************)
(* Size codec (index.ts 1571-1585).                                         *)
(***************************************************************************)
\* a mutant of encodeSize: masks 8 bits instead of 7
encodeSizeMask8(totalSize) ==
    << (totalSize \div 2097152) % 256, (totalSize \div 16384) % 256,
       (totalSize \div 128) % 256, totalSize % 256 >>

\* totalSize & 0x7F, (totalSize >> 7) & 0x7F, (totalSize >> 14) & 0x7F,
\* (totalSize >> 21) & 0x7F: >> is the arithmetic shift (floor division), & 0x7F
\* the non-negative remainder, also for a negative totalSize
encodeSize(totalSize) ==
    << (totalSize \div 2097152) % 128, (totalSize \div 16384) % 128,
       (totalSize \div 128) % 128, totalSize % 128 >>

\* (hSize[0] << 21) + (hSize[1] << 14) + (hSize[2] << 7) + hSize[3]
decodeSize(hSize) ==
    hSize[1] * 2097152 + hSize[2] * 16384 + hSize[3] * 128 + hSize[4]

(***************************************************************************)
(* Alias tables (frame-definitions.js) and the special frames (index.ts     *)
(* 1029-1061).  multiValueSeparator is << >> where the table defines none.  *)
(***************************************************************************)
ID3v24Frames ==
  [ album |-> [key |-> "TALB", multiValueSeparator |-> << >>],
    albumSortOrder |-> [key |-> "TSOA", multiValueSeparator |-> << >>],
    artist |-> [key |-> "TPE1", multiValueSeparator |-> << >>],
    artistSortOrder |-> [key |-> "TSOP", multiValueSeparator |-> << >>],
    bpm |-> [key |-> "TBPM", multiValueSeparator |-> << >>],
    composer |-> [key |-> "TCOM", multiValueSeparator |-> << >>],
    conductor |-> [key |-> "TPE3", multiValueSeparator |-> << >>],
    contentGroup |-> [key |-> "TIT1", multiValueSeparator |-> << >>],
    copyright |-> [key |-> "TCOP", multiValueSeparator |-> << >>],
    date |-> [key |-> "TDRC", multiValueSeparator |-> << >>],
    encodedBy |-> [key |-> "TENC", multiValueSeparator |-> << >>],
    encodingTechnology |-> [key |-> "TSSE", multiValueSeparator |-> << >>],
    fileOwner |-> [key |-> "TOWN", multiValueSeparator |-> << >>],
    fileType |-> [key |-> "TFLT", multiValueSeparator |-> << >>],
    genre |-> [key |-> "TCON", multiValueSeparator |-> << >>],
    initialKey |-> [key |-> "TKEY", multiValueSeparator |-> << >>],
    internetRadioName |-> [key |-> "TRSN", multiValueSeparator |-> << >>],
    internetRadioOwner |-> [key |-> "TRSO", multiValueSeparator |-> << >>],
    isrc |-> [key |-> "TSRC", multiValueSeparator |-> << >>],
    language |-> [key |-> "TLAN", multiValueSeparator |-> << >>],
    length |-> [key |-> "TLEN", multiValueSeparator |-> << >>],
    mediaType |-> [key |-> "TMED", multiValueSeparator |-> << >>],
    mood |-> [key |-> "TMOO", multiValueSeparator |-> << >>],
    originalArtist |-> [key |-> "TOPE", multiValueSeparator |-> << >>],
    originalFilename |-> [key |-> "TOFN", multiValueSeparator |-> << >>],
    originalReleaseDate |-> [key |-> "TDOR", multiValueSeparator |-> << >>],
    originalTextwriter |-> [key |-> "TOLY", multiValueSeparator |-> << >>],
    originalTitle |-> [key |-> "TOAL", multiValueSeparator |-> << >>],
    partOfSet |-> [key |-> "TPOS", multiValueSeparator |-> << >>],
    performerInfo |-> [key |-> "TPE2", multiValueSeparator |-> << >>],
    playlistDelay |-> [key |-> "TDLY", multiValueSeparator |-> << >>],
    producedNotice |-> [key |-> "TPRO", multiValueSeparator |-> << >>],
    publisher |-> [key |-> "TPUB", multiValueSeparator |-> << >>],
    remixArtist |-> [key |-> "TPE4", multiValueSeparator |-> << >>],
    subtitle |-> [key |-> "TIT3", multiValueSeparator |-> << >>],
    textWriter |-> [key |-> "TEXT", multiValueSeparator |-> << >>],
    time |-> [key |-> "TIME", multiValueSeparator |-> << >>],
    title |-> [key |-> "TIT2", multiValueSeparator |-> << >>],
    titleSortOrder |-> [key |-> "TSOT", multiValueSeparator |-> << >>],
    trackNumber |-> [key |-> "TRCK", multiValueSeparator |-> << >>] ]

ID3v23Frames ==
  [ album |-> [key |-> "TALB", multiValueSeparator |-> << >>],
    albumSortOrder |-> [key |-> "TSOA", multiValueSeparator |-> << >>],
    artist |-> [key |-> "TPE1", multiValueSeparator |-> <<32, 47, 32>>],
    artistSortOrder |-> [key |-> "TSOP", multiValueSeparator |-> << >>],
    bpm |-> [key |-> "TBPM", multiValueSeparator |-> << >>],
    composer |-> [key |-> "TCOM", multiValueSeparator |-> <<32, 47, 32>>],
    conductor |-> [key |-> "TPE3", multiValueSeparator |-> <<32, 47, 32>>],
    contentGroup |-> [key |-> "TIT1", multiValueSeparator |-> << >>],
    copyright |-> [key |-> "TCOP", multiValueSeparator |-> << >>],
    date |-> [key |-> "TDAT", multiValueSeparator |-> << >>],
    encodedBy |-> [key |-> "TENC", multiValueSeparator |-> << >>],
    encodingTechnology |-> [key |-> "TSSE", multiValueSeparator |-> << >>],
    fileOwner |-> [key |-> "TOWN", multiValueSeparator |-> << >>],
    fileType |-> [key |-> "TFLT", multiValueSeparator |-> << >>],
    genre |-> [key |-> "TCON", multiValueSeparator |-> <<59>>],
    initialKey |-> [key |-> "TKEY", multiValueSeparator |-> << >>],
    internetRadioName |-> [key |-> "TRSN", multiValueSeparator |-> << >>],
    internetRadioOwner |-> [key |-> "TRSO", multiValueSeparator |-> << >>],
    isrc |-> [key |-> "TSRC", multiValueSeparator |-> << >>],
    language |-> [key |-> "TLAN", multiValueSeparator |-> << >>],
    length |-> [key |-> "TLEN", multiValueSeparator |-> << >>],
    mediaType |-> [key |-> "TMED", multiValueSeparator |-> << >>],
    originalArtist |-> [key |-> "TOPE", multiValueSeparator |-> << >>],
    originalFilename |-> [key |-> "TOFN", multiValueSeparator |-> << >>],
    originalReleaseDate |-> [key |-> "TORY", multiValueSeparator |-> << >>],
    originalTextwriter |-> [key |-> "TOLY", multiValueSeparator |-> << >>],
    originalTitle |-> [key |-> "TOAL", multiValueSeparator |-> << >>],
    partOfSet |-> [key |-> "TPOS", multiValueSeparator |-> << >>],
    performerInfo |-> [key |-> "TPE2", multiValueSeparator |-> <<32, 47, 32>>],
    playlistDelay |-> [key |-> "TDLY", multiValueSeparator |-> << >>],
    publisher |-> [key |-> "TPUB", multiValueSeparator |-> << >>],
    remixArtist |-> [key |-> "TPE4", multiValueSeparator |-> <<32, 47, 32>>],
    size |-> [key |-> "TSIZ", multiValueSeparator |-> << >>],
    subtitle |-> [key |-> "TIT3", multiValueSeparator |-> << >>],
    textWriter |-> [key |-> "TEXT", multiValueSeparator |-> << >>],
    title |-> [key |-> "TIT2", multiValueSeparator |-> << >>],
    trackNumber |-> [key |-> "TRCK", multiValueSeparator |-> << >>] ]

FrameIdBytes ==
  [ APIC |-> <<65, 80, 73, 67>>,
    CHAP |-> <<67, 72, 65, 80>>,
    COMM |-> <<67, 79, 77, 77>>,
    POPM |-> <<80, 79, 80, 77>>,
    TALB |-> <<84, 65, 76, 66>>,
    TBPM |-> <<84, 66, 80, 77>>,
    TCOM |-> <<84, 67, 79, 77>>,
    TCON |-> <<84, 67, 79, 78>>,
    TCOP |-> <<84, 67, 79, 80>>,
    TDAT |-> <<84, 68, 65, 84>>,
    TDLY |-> <<84, 68, 76, 89>>,
    TDOR |-> <<84, 68, 79, 82>>,
    TDRC |-> <<84, 68, 82, 67>>,
    TENC |-> <<84, 69, 78, 67>>,
    TEXT |-> <<84, 69, 88, 84>>,
    TFLT |-> <<84, 70, 76, 84>>,
    TIME |-> <<84, 73, 77, 69>>,
    TIT1 |-> <<84, 73, 84, 49>>,
    TIT2 |-> <<84, 73, 84, 50>>,
    TIT3 |-> <<84, 73, 84, 51>>,
    TKEY |-> <<84, 75, 69, 89>>,
    TLAN |-> <<84, 76, 65, 78>>,
    TLEN |-> <<84, 76, 69, 78>>,
    TMED |-> <<84, 77, 69, 68>>,
    TMOO |-> <<84, 77, 79, 79>>,
    TOAL |-> <<84, 79, 65, 76>>,
    TOFN |-> <<84, 79, 70, 78>>,
    TOLY |-> <<84, 79, 76, 89>>,
    TOPE |-> <<84, 79, 80, 69>>,
    TORY |-> <<84, 79, 82, 89>>,
    TOWN |-> <<84, 79, 87, 78>>,
    TPE1 |-> <<84, 80, 69, 49>>,
    TPE2 |-> <<84, 80, 69, 50>>,
    TPE3 |-> <<84, 80, 69, 51>>,
    TPE4 |-> <<84, 80, 69, 52>>,
    TPOS |-> <<84, 80, 79, 83>>,
    TPRO |-> <<84, 80, 82, 79>>,
    TPUB |-> <<84, 80, 85, 66>>,
    TRCK |-> <<84, 82, 67, 75>>,
    TRDA |-> <<84, 82, 68, 65>>,
    TRSN |-> <<84, 82, 83, 78>>,
    TRSO |-> <<84, 82, 83, 79>>,
    TSIZ |-> <<84, 83, 73, 90>>,
    TSOA |-> <<84, 83, 79, 65>>,
    TSOP |-> <<84, 83, 79, 80>>,
    TSOT |-> <<84, 83, 79, 84>>,
    TSRC |-> <<84, 83, 82, 67>>,
    TSSE |-> <<84, 83, 83, 69>>,
    TXXX |-> <<84, 88, 88, 88>>,
    TYER |-> <<84, 89, 69, 82>>,
    USLT |-> <<85, 83, 76, 84>> ]

LegacyFramesRemapped == [TYER |-> "date", TIME |-> "date", TRDA |-> "date"]

\* SpecialFrames: alias |-> name, in the order of the object's keys
SpecialFrames ==
    [comment |-> "COMM", image |-> "APIC", unsynchronisedLyrics |-> "USLT",
     userDefined |-> "TXXX", popularimeter |-> "POPM", chapter |-> "CHAP"]

getVersionedFrameDefinitions(version) ==
    IF version = "ID3v2.3" THEN ID3v23Frames ELSE ID3v24Frames

(***************************************************************************)
(* Strings: sequences of code points.                                       *)
(***************************************************************************)
\* const multiValueSplitter = '#BREAK_HERE#'
multiValueSplitter == <<35, 66, 82, 69, 65, 75, 95, 72, 69, 82, 69, 35>>

\* does sub occur in s at 0-based index i
OccursAt(s, sub, i) ==
    /\ i + Len(sub) <= Len(s)
    /\ \A k \in 1..Len(sub) : s[i + k] = sub[k]

\* s.indexOf(sub, from): the first index >= from, or -1
IndexOfFrom(s, sub, from) ==
    LET hits == { i \in from..(Len(s) - Len(sub)) : OccursAt(s, sub, i) }
    IN  IF hits = {} THEN -1 ELSE CHOOSE i \in hits : \A j \in hits : i <= j

IndexOf(s, sub) == IndexOfFrom(s, sub, 0)

\* s.split(sub) for a non-empty sub: the pieces between the occurrences
RECURSIVE SplitOn(_, _)
SplitOn(s, sub) ==
    LET i == IndexOf(s, sub)
    IN  IF i = -1 THEN << s >>
        ELSE << SubSeq(s, 1, i) >> \o SplitOn(SubSeq(s, i + Len(sub) + 1, Len(s)), sub)

\* s.replace(new RegExp(sub, 'g'), by) for a sub without regex operators
RECURSIVE ReplaceAll(_, _, _)
ReplaceAll(s, sub, by) ==
    LET i == IndexOf(s, sub)
    IN  IF i = -1 THEN s
        ELSE SubSeq(s, 1, i) \o by \o ReplaceAll(SubSeq(s, i + Len(sub) + 1, Len(s)), sub, by)

\* a.filter(v => v.length)
RECURSIVE FilterNonEmpty(_)
FilterNonEmpty(a) ==
    IF a = << >> THEN << >>
    ELSE (IF Len(Head(a)) > 0 THEN << Head(a) >> ELSE << >>) \o FilterNonEmpty(Tail(a))

RECURSIVE Concat(_)
Concat(bufs) == IF bufs = << >> THEN << >> ELSE Head(bufs) \o Concat(Tail(bufs))

(***************************************************************************)
(* Text encodings (iconv-lite as index.ts uses it).                         *)
(***************************************************************************)
\* A string is the sequence of its UTF-16 code units.
IsHighSurrogate(u) == u >= 55296 /\ u <= 56319
IsLowSurrogate(u) == u >= 56320 /\ u <= 57343

\* the UTF-8 bytes of one code point; a surrogate on its own is written as
\* U+FFFD (EF BF BD)
Utf8Char(c) ==
    IF c < 128 THEN << c >>
    ELSE IF c < 2048 THEN << 192 + (c \div 64), 128 + (c % 64) >>
    ELSE IF IsHighSurrogate(c) \/ IsLowSurrogate(c) THEN << 239, 191, 189 >>
    ELSE IF c < 65536
    THEN << 224 + (c \div 4096), 128 + ((c \div 64) % 64), 128 + (c % 64) >>
    ELSE << 240 + (c \div 262144), 128 + ((c \div 4096) % 64),
            128 + ((c \div 64) % 64), 128 + (c % 64) >>

\* iconv.encode(t, 'utf8'): a high surrogate followed by a low one is one
\* code point above U+FFFF
RECURSIVE Utf8Encode(_)
Utf8Encode(str) ==
    IF str = << >> THEN << >>
    ELSE IF Len(str) >= 2 /\ IsHighSurrogate(str[1]) /\ IsLowSurrogate(str[2])
    THEN Utf8Char(65536 + (str[1] - 55296) * 1024 + (str[2] - 56320))
         \o Utf8Encode(Tail(Tail(str)))
    ELSE Utf8Char(Head(str)) \o Utf8Encode(Tail(str))

IsCont(x) == x >= 128 /\ x <= 191

\* the number of continuation bytes the lead byte b0 asks for, -1 for a
\* byte that leads nothing (80..C1, F5..FF)
Utf8Need(b0) ==
    IF b0 < 128 THEN 0
    ELSE IF b0 >= 194 /\ b0 <= 223 THEN 1
    ELSE IF b0 >= 224 /\ b0 <= 239 THEN 2
    ELSE IF b0 >= 240 /\ b0 <= 244 THEN 3
    ELSE -1

\* the second byte a lead byte accepts: no overlong form, no surrogate,
\* nothing above U+10FFFF
Utf8Second(b0, b1) ==
    IF b0 = 224 THEN b1 >= 160 /\ b1 <= 191
    ELSE IF b0 = 237 THEN b1 >= 128 /\ b1 <= 159
    ELSE IF b0 = 240 THEN b1 >= 144 /\ b1 <= 191
    ELSE IF b0 = 244 THEN b1 >= 128 /\ b1 <= 143
    ELSE IsCont(b1)

\* the code units of the UTF-8 bytes from 0-based offset i on.  A sequence
\* that is cut short or goes wrong decodes to one U+FFFD for the bytes that
\* were right so far, and decoding goes on at the byte that was not; a code
\* point above U+FFFF is a surrogate pair
RECURSIVE Utf8From(_, _)
Utf8From(b, i) ==
    IF i >= Len(b) THEN << >>
    ELSE LET b0 == At(b, i)
             b1 == At(b, i + 1)
             b2 == At(b, i + 2)
             b3 == At(b, i + 3)
             need == Utf8Need(b0)
         IN  IF need = 0 THEN << b0 >> \o Utf8From(b, i + 1)
             ELSE IF need = -1 \/ ~Utf8Second(b0, b1) THEN << 65533 >> \o Utf8From(b, i + 1)
             ELSE IF need = 1
                  THEN << (b0 - 192) * 64 + (b1 - 128) >> \o Utf8From(b, i + 2)
             ELSE IF ~IsCont(b2) THEN << 65533 >> \o Utf8From(b, i + 2)
             ELSE IF need = 2
                  THEN << (b0 - 224) * 4096 + (b1 - 128) * 64 + (b2 - 128) >>
                       \o Utf8From(b, i + 3)
             ELSE IF ~IsCont(b3) THEN << 65533 >> \o Utf8From(b, i + 3)
             ELSE LET c == (b0 - 240) * 262144 + (b1 - 128) * 4096 + (b2 - 128) * 64
                           + (b3 - 128) - 65536
                  IN  << 55296 + (c \div 1024), 56320 + (c % 1024) >> \o Utf8From(b, i + 4)

\* iconv.decode strips a leading byte order mark U+FEFF
StripBOM(str) == IF Len(str) > 0 /\ str[1] = 65279 THEN Tail(str) ELSE str

\* iconv.decode(b, 'utf8')
Utf8Decode(b) == StripBOM(Utf8From(b, 0))

\* iconv.decode(b, 'ISO-8859-1'): one code point per byte
Latin1Decode(b) == b

\* iconv.encode(t, 'utf16'): a byte order mark FF FE, then little-endian units
RECURSIVE Utf16LEUnits(_)
Utf16LEUnits(str) ==
    IF str = << >> THEN << >>
    ELSE << Head(str) % 256, Head(str) \div 256 >> \o Utf16LEUnits(Tail(str))

Utf16Encode(str) == << 255, 254 >> \o Utf16LEUnits(str)

\* getEncodingByte (index.ts 1720-1730) of a buffer or a number
getEncodingByteOfBuffer(data) == At(data, 0)

\* getEncodingName (index.ts 1732-1744) of an encoding byte
getEncodingName(e) ==
    IF e = 0 THEN "ISO-8859-1"
    ELSE IF e = 1 THEN "utf16"
    ELSE IF e = 2 THEN "UTF-16BE"
    ELSE "utf8"

\* getTerminationCount (index.ts 1746-1753)
getTerminationCount(e) == IF e = 0 \/ e = 3 THEN 1 ELSE 2

(***************************************************************************)
(* JavaScript values of the model.                                          *)
(*   a text value: [arr |-> FALSE, v |-> <<s>>] is the string s,            *)
(*                 [arr |-> TRUE, v |-> a] the array a of strings;          *)
(*   a 32-bit number: <<hi, lo>>, its two 16-bit halves; Undefined for an   *)
(*   absent field; an absent string field is the empty string, which the    *)
(*   code treats alike (both are falsy).                                    *)
(***************************************************************************)
Str(s) == [arr |-> FALSE, v |-> << s >>]
Arr(a) == [arr |-> TRUE, v |-> a]

Undefined == << >>
Num(hi, lo) == << hi, lo >>

\* !value of a text value: only the empty string is falsy
FalsyText(value) == ~value.arr /\ value.v[1] = << >>

\* !n of a number field: undefined and 0 are falsy
FalsyNum(n) == n = Undefined \/ n = Num(0, 0)

\* buf.writeUInt32BE(n) of a number <<hi, lo>>
NumBytes(n) == << n[1] \div 256, n[1] % 256, n[2] \div 256, n[2] % 256 >>

\* buf.readUInt32BE(off) as a number <<hi, lo>>
ReadNum(b, off) ==
    Num(At(b, off) * 256 + At(b, off + 1), At(b, off + 2) * 256 + At(b, off + 3))

\* the properties every object inherits from Object.prototype, with the
\* bytes of their names: obj[name] is truthy for each of them on an object
\* that has no such key of its own
InheritedNames ==
  [
    constructor |-> <<99, 111, 110, 115, 116, 114, 117, 99, 116, 111, 114>>,
    hasOwnProperty |-> <<104, 97, 115, 79, 119, 110, 80, 114, 111, 112, 101, 114, 116, 121>>,
    isPrototypeOf |-> <<105, 115, 80, 114, 111, 116, 111, 116, 121, 112, 101, 79, 102>>,
    propertyIsEnumerable |-> <<112, 114, 111, 112, 101, 114, 116, 121, 73, 115, 69, 110, 117, 109, 101, 114, 97, 98, 108, 101>>,
    toLocaleString |-> <<116, 111, 76, 111, 99, 97, 108, 101, 83, 116, 114, 105, 110, 103>>,
    toString |-> <<116, 111, 83, 116, 114, 105, 110, 103>>,
    valueOf |-> <<118, 97, 108, 117, 101, 79, 102>>,
    __defineGetter__ |-> <<95, 95, 100, 101, 102, 105, 110, 101, 71, 101, 116, 116, 101, 114, 95, 95>>,
    __defineSetter__ |-> <<95, 95, 100, 101, 102, 105, 110, 101, 83, 101, 116, 116, 101, 114, 95, 95>>,
    __lookupGetter__ |-> <<95, 95, 108, 111, 111, 107, 117, 112, 71, 101, 116, 116, 101, 114, 95, 95>>,
    __lookupSetter__ |-> <<95, 95, 108, 111, 111, 107, 117, 112, 83, 101, 116, 116, 101, 114, 95, 95>>,
    __proto__ |-> <<95, 95, 112, 114, 111, 116, 111, 95, 95>> ]

\* String(Object.prototype[name]): the source text of a function, and
\* '[object Object]' for the prototype itself
InheritedToString ==
  [
    constructor |-> "function Object() { [native code] }",
    hasOwnProperty |-> "function hasOwnProperty() { [native code] }",
    isPrototypeOf |-> "function isPrototypeOf() { [native code] }",
    propertyIsEnumerable |-> "function propertyIsEnumerable() { [native code] }",
    toLocaleString |-> "function toLocaleString() { [native code] }",
    toString |-> "function toString() { [native code] }",
    valueOf |-> "function valueOf() { [native code] }",
    __defineGetter__ |-> "function __defineGetter__() { [native code] }",
    __defineSetter__ |-> "function __defineSetter__() { [native code] }",
    __lookupGetter__ |-> "function __lookupGetter__() { [native code] }",
    __lookupSetter__ |-> "function __lookupSetter__() { [native code] }",
    __proto__ |-> "[object Object]" ]

\* 'function ' and '() { [native code] }'
FunctionPrefix == <<102, 117, 110, 99, 116, 105, 111, 110, 32>>
FunctionSuffix == <<40, 41, 32, 123, 32, 91, 110, 97, 116, 105, 118, 101, 32, 99, 111, 100, 101, 93, 32, 125>>

\* a member of Object.prototype as a value: the marker -4 and the bytes of
\* its name
InheritedMember(name) == << -4 >> \o name

\* the names of the function members of Array.prototype (ES2023), as bytes
ArrayNames ==
    {
      <<97, 116>>,  \* at
      <<99, 111, 110, 99, 97, 116>>,  \* concat
      <<99, 111, 110, 115, 116, 114, 117, 99, 116, 111, 114>>,  \* constructor
      <<99, 111, 112, 121, 87, 105, 116, 104, 105, 110>>,  \* copyWithin
      <<101, 110, 116, 114, 105, 101, 115>>,  \* entries
      <<101, 118, 101, 114, 121>>,  \* every
      <<102, 105, 108, 108>>,  \* fill
      <<102, 105, 108, 116, 101, 114>>,  \* filter
      <<102, 105, 110, 100>>,  \* find
      <<102, 105, 110, 100, 73, 110, 100, 101, 120>>,  \* findIndex
      <<102, 105, 110, 100, 76, 97, 115, 116>>,  \* findLast
      <<102, 105, 110, 100, 76, 97, 115, 116, 73, 110, 100, 101, 120>>,  \* findLastIndex
      <<102, 108, 97, 116>>,  \* flat
      <<102, 108, 97, 116, 77, 97, 112>>,  \* flatMap
      <<102, 111, 114, 69, 97, 99, 104>>,  \* forEach
      <<105, 110, 99, 108, 117, 100, 101, 115>>,  \* includes
      <<105, 110, 100, 101, 120, 79, 102>>,  \* indexOf
      <<106, 111, 105, 110>>,  \* join
      <<107, 101, 121, 115>>,  \* keys
      <<108, 97, 115, 116, 73, 110, 100, 101, 120, 79, 102>>,  \* lastIndexOf
      <<109, 97, 112>>,  \* map
      <<112, 111, 112>>,  \* pop
      <<112, 117, 115, 104>>,  \* push
      <<114, 101, 100, 117, 99, 101>>,  \* reduce
      <<114, 101, 100, 117, 99, 101, 82, 105, 103, 104, 116>>,  \* reduceRight
      <<114, 101, 118, 101, 114, 115, 101>>,  \* reverse
      <<115, 104, 105, 102, 116>>,  \* shift
      <<115, 108, 105, 99, 101>>,  \* slice
      <<115, 111, 109, 101>>,  \* some
      <<115, 111, 114, 116>>,  \* sort
      <<115, 112, 108, 105, 99, 101>>,  \* splice
      <<116, 111, 76, 111, 99, 97, 108, 101, 83, 116, 114, 105, 110, 103>>,  \* toLocaleString
      <<116, 111, 82, 101, 118, 101, 114, 115, 101, 100>>,  \* toReversed
      <<116, 111, 83, 111, 114, 116, 101, 100>>,  \* toSorted
      <<116, 111, 83, 112, 108, 105, 99, 101, 100>>,  \* toSpliced
      <<116, 111, 83, 116, 114, 105, 110, 103>>,  \* toString
      <<117, 110, 115, 104, 105, 102, 116>>,  \* unshift
      <<118, 97, 108, 117, 101, 115>>,  \* values
      <<119, 105, 116, 104>> }  \* with

\* a function member of Array.prototype as a value: the marker -6 and the
\* bytes of its name
ArrayMember(name) == << -6 >> \o name

\* a number as a value (the length of an array): the marker -5 and the number
NumberValue(n) == << -5, n >>

\* String(n) of a number n >= 0
RECURSIVE Digits(_)
Digits(n) == IF n < 10 THEN << 48 + n >> ELSE Digits(n \div 10) \o << 48 + (n % 10) >>

\* "" + (x || "") of an array element, as iconv.encode takes it: a string is
\* itself, a member of Object.prototype its source text, a number its
\* digits, and the number 0, which is falsy, the empty string
ToText(x) ==
    IF Len(x) > 0 /\ x[1] = -4
    THEN IF Tail(x) = InheritedNames["__proto__"] THEN <<91, 111, 98, 106, 101, 99, 116, 32, 79, 98, 106, 101, 99, 116, 93>>
         ELSE FunctionPrefix
              \o (IF Tail(x) = InheritedNames["constructor"] THEN <<79, 98, 106, 101, 99, 116>> ELSE Tail(x))
              \o FunctionSuffix
    ELSE IF Len(x) > 0 /\ x[1] = -6
    THEN FunctionPrefix
         \o (IF Tail(x) = InheritedNames["constructor"] THEN <<65, 114, 114, 97, 121>> ELSE Tail(x))
         \o FunctionSuffix
    ELSE IF Len(x) > 0 /\ x[1] = -5
    THEN IF x[2] = 0 THEN << >> ELSE Digits(x[2])
    ELSE x

\* the value null of a create function
Null == << -1 >>

\* a ten-byte frame header: buffer.write(id, 0); buffer.writeUInt32BE(size, 4)
FrameHeader(id, size) ==
    LET name == IF id \in DOMAIN FrameIdBytes THEN FrameIdBytes[id] ELSE InheritedNames[id]
        written == [i \in 1..10 |-> IF i <= Len(name) THEN name[i] ELSE 0]
    IN  SubSeq(written, 1, 4) \o UInt32BE(size) \o SubSeq(written, 9, 10)

\* const DEFAULT_PADDING_SIZE (index.ts 977)
DEFAULT_PADDING_SIZE == 2048

\* the largest padding write leaves in a tag it overwrites (index.ts 1122)
MaxReusedPadding == 10240

(***************************************************************************)
(* Text frames (index.ts 1608-1634).                                        *)
(***************************************************************************)
RECURSIVE EncodeEach(_)
EncodeEach(a) ==
    IF a = << >> THEN << >>
    ELSE Utf8Encode(ToText(Head(a))) \o << 0 >> \o EncodeEach(Tail(a))

\* a mutant of createTextFrame: the values of an array are not separated
createTextFrameJoined(frameId, textValue) ==
    IF frameId = "" \/ FalsyText(textValue) THEN Null
    ELSE LET encoded == Utf8Encode(Concat(textValue.v)) \o << 0 >>
         IN  FrameHeader(frameId, Len(encoded) + 1) \o << 3 >> \o encoded

\* a mutant of createTextFrame: the encoding byte says ISO-8859-1
createTextFrameLatin1(frameId, textValue) ==
    IF frameId = "" \/ FalsyText(textValue) THEN Null
    ELSE LET encoded == EncodeEach(textValue.v)
         IN  FrameHeader(frameId, Len(encoded) + 1) \o << 0 >> \o encoded

createTextFrame(frameId, textValue) ==
    IF frameId = "" \/ FalsyText(textValue) THEN Null
    ELSE LET encoded == EncodeEach(textValue.v)
         IN  FrameHeader(frameId, Len(encoded) + 1) \o << 3 >> \o encoded

(***************************************************************************)
(* Special frames: create functions.                                        *)
(***************************************************************************)
\* createLanguage (index.ts 1761-1769); Buffer.from(language) encodes UTF-8
createLanguage(language) ==
    IF language = << >> THEN << 101, 110, 103 >>
    ELSE IF Len(language) > 3 THEN Utf8Encode(SubSeq(language, 1, 3))
    ELSE Utf8Encode(language)

\* createContentDescriptor(description, 0x01, true) (index.ts 1771-1786)
createContentDescriptor(description) ==
    IF description = << >> THEN Utf16Encode(<< 0 >>)
    ELSE Utf16Encode(description) \o Zeros(getTerminationCount(1))

\* createText(text, 0x01, false) (index.ts 1788-1798)
createText(text) == Utf16Encode(text)

\* createCommentFrame / createUnsynchronisedLyricsFrame share this body
LangDescTextFrame(id, c) ==
    IF c.text = << >> THEN Null
    ELSE LET body == << 1 >> \o createLanguage(c.language)
                     \o createContentDescriptor(c.shortText) \o createText(c.text)
         IN  FrameHeader(id, Len(body)) \o body

\* createCommentFrame (index.ts 1807-1826)
createCommentFrame(comment) == LangDescTextFrame("COMM", comment)

\* createUnsynchronisedLyricsFrame (index.ts 1872-1897); a string argument
\* has been wrapped as {language: 'eng', text: string} by the caller's input
createUnsynchronisedLyricsFrame(lyrics) == LangDescTextFrame("USLT", lyrics)

\* createPictureFrame (index.ts 1639-1668) of an image buffer
ImageJpeg == << 105, 109, 97, 103, 101, 47, 106, 112, 101, 103 >>
ImagePng == << 105, 109, 97, 103, 101, 47, 112, 110, 103 >>

\* a mutant of createPictureFrame: the terminator of the (empty) description
\* is left out
createPictureFrameNoDescription(data) ==
    LET mimeType == IF At(data, 0) = 255 /\ At(data, 1) = 216 /\ At(data, 2) = 255
                    THEN ImageJpeg ELSE ImagePng
        bContent == << 0 >> \o mimeType \o << 0, 3 >>
    IN  FrameHeader("APIC", Len(data) + Len(bContent)) \o bContent \o data

createPictureFrame(data) ==
    LET mimeType == IF At(data, 0) = 255 /\ At(data, 1) = 216 /\ At(data, 2) = 255
                    THEN ImageJpeg ELSE ImagePng
        bContent == << 0 >> \o mimeType \o << 0, 3, 0 >>
    IN  FrameHeader("APIC", Len(data) + Len(bContent)) \o bContent \o data

\* createUserDefinedFrames (index.ts 1976-1983): userProps is the sequence of
\* the object's [desc, value] pairs, one TXXX frame for each
RECURSIVE createUserDefinedFrames(_)
createUserDefinedFrames(userProps) ==
    IF userProps = << >> THEN << >>
    ELSE << createTextFrame("TXXX", Arr(<< Head(userProps).desc >> \o Head(userProps).value.v)) >>
         \o createUserDefinedFrames(Tail(userProps))

\* a mutant of createPopularimeterFrame: rating and counter are written
\* without the range tests, the rating as the low byte of the number
createPopularimeterFrameUnclamped(popularimeter) ==
    LET r == popularimeter.rating
        c == popularimeter.counter
        emailBuffer == Utf8Encode(popularimeter.email \o << 0 >>)
    IN  IF popularimeter.email = << >> THEN Null
        ELSE FrameHeader("POPM", Len(emailBuffer) + 1 + 4)
             \o emailBuffer \o << r.n % 256 >> \o NumBytes(c.num)

\* the frame a RangeError replaces (ERR_OUT_OF_RANGE of writeUInt32BE)
RangeError == << -3 >>

\* createPopularimeterFrame (index.ts 1992-2020).  The rating is
\* [nan |-> BOOLEAN, n |-> integer] and the counter [nan |-> BOOLEAN,
\* neg |-> BOOLEAN, num |-> <<hi, lo>>], the number num or its negative; nan
\* for a value Math.trunc makes no number of.  counterBuffer.writeUInt32BE
\* raises for a value above 2^32 - 1, a num whose high half is above 65535
createPopularimeterFrame(popularimeter) ==
    LET r == popularimeter.rating
        c == popularimeter.counter
        rating == IF r.nan \/ r.n < 0 \/ r.n > 255 THEN 0 ELSE r.n
        counter == IF c.nan \/ (c.neg /\ c.num # Num(0, 0)) THEN Num(0, 0) ELSE c.num
        emailBuffer == Utf8Encode(popularimeter.email \o << 0 >>)
    IN  IF popularimeter.email = << >> THEN Null
        ELSE IF counter[1] > 65535 THEN RangeError
        ELSE FrameHeader("POPM", Len(emailBuffer) + 1 + 4)
             \o emailBuffer \o << rating >> \o NumBytes(counter)

(***************************************************************************)
(* createBuffersFromTags (index.ts 1187-1223) and the chapter frames        *)
(* (index.ts 2081-2131), which call each other.  A tags object is the       *)
(* sequence of its [key, value] pairs in the order of Object.keys.          *)
(***************************************************************************)
\* an entry of the table is an object, the tag a string: === is never true
ObjectEqualsString(entry, tag) == FALSE

\* Object.keys(TextFrames).map(i => TextFrames[i]).indexOf(tag) !== -1
IsTextFrameValue(TextFrames, tag) ==
    \E i \in DOMAIN TextFrames : ObjectEqualsString(TextFrames[i], tag)

\* Object.keys(SpecialFrames).map(i => SpecialFrames[i].name).indexOf(tag) !== -1
IsSpecialFrameName(tag) == \E i \in DOMAIN SpecialFrames : SpecialFrames[i] = tag

SpecialAliasOf(name) == CHOOSE i \in DOMAIN SpecialFrames : SpecialFrames[i] = name

\* the frame a TypeError replaces (TextFrames[tag].key of an undefined entry)
TypeError == << -2 >>

RECURSIVE createBuffersFromTags(_)
RECURSIVE createChapterFrameHelper(_)
RECURSIVE createChapterFrames(_)

\* a number writeUInt32BE raises ERR_OUT_OF_RANGE for: above 2^32 - 1
OutOfRange(n) == n # Undefined /\ n[1] > 65535

\* one of the frames is the RangeError a create function raised
Raised(frames) == \E i \in DOMAIN frames : frames[i] = RangeError

\* createChapterFrame (index.ts 2081-2094): chapter.multiple says the argument
\* is a non-empty array of chapters, chapter.list holds the chapter(s)
createChapterFrame(chapter) ==
    IF chapter.multiple
    THEN CHOOSE frame \in
             { IF Raised(frames) THEN RangeError
               ELSE IF Len(frames) > 0 THEN Concat(frames) ELSE Null :
               frames \in { createChapterFrames(chapter.list) } } : TRUE
    ELSE createChapterFrameHelper(chapter.list[1])

\* the forEach of createChapterFrame; a RangeError ends it
createChapterFrames(list) ==
    IF list = << >> THEN << >>
    ELSE CHOOSE frames \in
             { IF frame = RangeError THEN << RangeError >>
               ELSE (IF frame = Null THEN << >> ELSE << frame >>)
                    \o createChapterFrames(Tail(list)) :
               frame \in { createChapterFrameHelper(Head(list)) } } : TRUE

\* createChapterFrameHelper (index.ts 2096-2131)
createChapterFrameHelper(chapter) ==
    IF chapter.elementID = << >> \/ chapter.startTimeMs = Undefined \/ FalsyNum(chapter.endTimeMs)
    THEN Null
    ELSE IF \/ OutOfRange(chapter.startTimeMs) \/ OutOfRange(chapter.endTimeMs)
            \/ OutOfRange(chapter.startOffsetBytes) \/ OutOfRange(chapter.endOffsetBytes)
    THEN RangeError
    ELSE LET elementIDBuffer == Utf8Encode(chapter.elementID \o << 0 >>)
             startOffsetBytesBuffer ==
                 IF FalsyNum(chapter.startOffsetBytes) THEN << 255, 255, 255, 255 >>
                 ELSE NumBytes(chapter.startOffsetBytes)
             endOffsetBytesBuffer ==
                 IF FalsyNum(chapter.endOffsetBytes) THEN << 255, 255, 255, 255 >>
                 ELSE NumBytes(chapter.endOffsetBytes)
         IN  CHOOSE frame \in
                 { IF Raised(frames) THEN RangeError
                   ELSE LET framesBuffer == Concat(frames)
                        IN  FrameHeader("CHAP", Len(elementIDBuffer) + 16 + Len(framesBuffer))
                            \o elementIDBuffer \o NumBytes(chapter.startTimeMs)
                            \o NumBytes(chapter.endTimeMs)
                            \o startOffsetBytesBuffer \o endOffsetBytesBuffer
                            \o framesBuffer :
                   frames \in { createBuffersFromTags(chapter.tags) } } : TRUE

\* SpecialFrames[alias].create(value): [array |-> the result is an array,
\* items |-> its elements, or the one value returned]
createSpecial(alias, value) ==
    CASE alias = "comment" -> [array |-> FALSE, items |-> << createCommentFrame(value) >>]
      [] alias = "image" -> [array |-> FALSE, items |-> << createPictureFrame(value) >>]
      [] alias = "unsynchronisedLyrics" ->
            [array |-> FALSE, items |-> << createUnsynchronisedLyricsFrame(value) >>]
      [] alias = "userDefined" -> [array |-> TRUE, items |-> createUserDefinedFrames(value)]
      [] alias = "popularimeter" ->
            [array |-> FALSE, items |-> << createPopularimeterFrame(value) >>]
      [] alias = "chapter" -> [array |-> FALSE, items |-> << createChapterFrame(value) >>]

\* a mutant of PushFrame: what the create function returned is pushed
\* without the instanceof Buffer test
PushFrameUntested(frame) == frame.items

\* the last lines of the loop body: a Buffer is pushed, an array is spread when
\* it is not empty and its first element is a Buffer
PushFrame(frame) ==
    IF frame.array
    THEN IF Len(frame.items) > 0 /\ frame.items[1] # Null THEN frame.items ELSE << >>
    ELSE IF frame.items[1] # Null THEN frame.items ELSE << >>

\* the frames the loop body pushes for one key of tags.  TextFrames[tag] is
\* truthy for an alias of the table and for the names every object inherits
FramesOfTag(tag, value) ==
    LET TextFrames == getVersionedFrameDefinitions("ID3v2.4")
    IN  IF \/ tag \in DOMAIN TextFrames \/ tag \in DOMAIN InheritedNames
           \/ IsTextFrameValue(TextFrames, tag)
        THEN IF tag \in DOMAIN TextFrames
             THEN PushFrame([array |-> FALSE,
                             items |-> << createTextFrame(TextFrames[tag].key, value) >>])
             \* an inherited member has no key: specName is the tag
             ELSE IF tag \in DOMAIN InheritedNames
             THEN PushFrame([array |-> FALSE, items |-> << createTextFrame(tag, value) >>])
             ELSE << TypeError >>
        ELSE IF tag \in DOMAIN SpecialFrames
        THEN PushFrame(createSpecial(tag, value))
        ELSE IF IsSpecialFrameName(tag)
        THEN LET frame == createSpecial(SpecialAliasOf(tag), value)
             IN  IF frame.array THEN frame.items ELSE PushFrame(frame)
        ELSE << >>

createBuffersFromTags(tags) ==
    IF tags = << >> THEN << >>
    ELSE FramesOfTag(Head(tags).key, Head(tags).value) \o createBuffersFromTags(Tail(tags))

(***************************************************************************)
(* The tag header and create (index.ts 1151-1185, 1590-1601).               *)
(***************************************************************************)
\* createTagHeader: 'ID3', version 04 00, flags 00, four size bytes still 0
createTagHeader == << 73, 68, 51, 4, 0, 0, 0, 0, 0, 0 >>

\* writeTagHeaderSize(size, tag): the encoded size at offsets 6..9 of tag
writeTagHeaderSize(size, tag) ==
    SubSeq(tag, 1, 6) \o encodeSize(size) \o SubSeq(tag, 11, Len(tag))

RECURSIVE TotalLength(_)
TotalLength(frames) ==
    IF frames = << >> THEN 0 ELSE Len(Head(frames)) + TotalLength(Tail(frames))

\* a mutant of create: the ten bytes of the tag header are counted in the size
createCountingHeader(tags) ==
    LET frames == << createTagHeader >> \o createBuffersFromTags(tags)
    IN  Concat(<< writeTagHeaderSize(TotalLength(frames), frames[1]) >> \o Tail(frames))

\* create (index.ts 1151-1185); RangeError when a create function raised it
create(tags) ==
    CHOOSE completeTag \in
        { IF Raised(frames) THEN RangeError
          ELSE Concat(<< writeTagHeaderSize(TotalLength(frames) - 10, frames[1]) >>
                      \o Tail(frames)) :
          frames \in { << createTagHeader >> \o createBuffersFromTags(tags) } } : TRUE

(***************************************************************************)
(* Locating and measuring a tag (index.ts 1444-1501).                       *)
(***************************************************************************)
ID3 == << 73, 68, 51 >>

\* the largest offset of the signature that getFramePosition accepts
MaxFramePosition == 20

getFramePosition(buf) ==
    LET framePosition == IndexOf(buf, ID3)
    IN  IF framePosition = -1 \/ framePosition > MaxFramePosition THEN -1 ELSE framePosition

getTagVersion(buf) ==
    LET framePosition == IndexOf(buf, ID3)
    IN  IF framePosition = -1 \/ framePosition > MaxFramePosition THEN "unknown"
        ELSE IF At(buf, framePosition + 3) = 3 THEN "ID3v2.3"
        ELSE IF At(buf, framePosition + 3) = 4 THEN "ID3v2.4"
        ELSE "unknown"

\* Buffer.from([buffer[offset], .., buffer[offset + 3]]): undefined becomes 0
FourBytes(buf, offset) ==
    << ByteOr0(At(buf, offset)), ByteOr0(At(buf, offset + 1)),
       ByteOr0(At(buf, offset + 2)), ByteOr0(At(buf, offset + 3)) >>

\* readUIntBE(0, 4) of four bytes: the number in two 16-bit halves
ReadUIntBE(b) == Num(b[1] * 256 + b[2], b[3] * 256 + b[4])

\* the halves of a number below 2^31, and the number of such halves
NumOf(k) == Num(k \div 65536, k % 65536)
IntOf(n) == n[1] * 65536 + n[2]

\* n > k for the halves n and a number k below 2^31
NumAbove(n, k) == n[1] >= 32768 \/ IntOf(n) > k

\* getFrameSize (index.ts 1473-1479): the size in two 16-bit halves
getFrameSize(buf, offset, decode) ==
    IF decode THEN NumOf(decodeSize(FourBytes(buf, offset)))
    ELSE ReadUIntBE(FourBytes(buf, offset))

\* getTagsSize (index.ts 1481-1483): a decoded size is below 2^30
getTagsSize(buf) == IntOf(getFrameSize(buf, 6, TRUE))

\* getTagHeaderSize (index.ts 1485-1501)
getTagHeaderSize(data) ==
    LET framePosition == getFramePosition(data)
        hSize == FourBytes(data, framePosition + 6)
    IN  IF \E i \in 1..4 : hSize[i] >= 128 THEN -1 ELSE decodeSize(hSize)

(***************************************************************************)
(* The frame splitter (index.ts 1331-1379).                                 *)
(***************************************************************************)
\* source.copy(target, 0, sourceStart) into a zero-filled target of n bytes
CopyInto(n, source, sourceStart) ==
    [i \in 1..n |-> IF sourceStart + i <= Len(source) THEN source[sourceStart + i] ELSE 0]

\* Buffer.copy with sourceStart beyond the end of the source: a runtime whose
\* Buffer.copy checks the range raises a RangeError (ERR_OUT_OF_RANGE), another
\* copies nothing; copyRangeChecked says which runtime the program runs on
CopyThrows(source, sourceStart) == copyRangeChecked /\ sourceStart > Len(source)

getTextFrameHeaderSize(version) == IF version = "ID3v2.2" THEN 6 ELSE 10

getIdentifierSize(version) == IF version = "ID3v2.2" THEN 3 ELSE 4

\* header.toString('utf8', 0, identifierSize)
NameOf(header, identifierSize) == Utf8From(SubSeq(header, 1, identifierSize), 0)

\* bodyFrameHeader[9] & 1 << 1 (undefined & 2 is 0)
Unsynchronized(header) == At(header, 9) >= 0 /\ (At(header, 9) \div 2) % 2 = 1

\* the loop of getFramesFromID3Body from currentPosition on:
\* [err |-> "none" or the error raised, frames |-> the frames pushed]
RECURSIVE FramesFrom(_, _, _)
FramesFrom(ID3FrameBody, currentPosition, version) ==
    IF ~(currentPosition < Len(ID3FrameBody) /\ At(ID3FrameBody, currentPosition) # 0)
    THEN [err |-> "none", frames |-> << >>]
    ELSE LET textframeHeaderSize == getTextFrameHeaderSize(version)
             bodyFrameHeader == CopyInto(textframeHeaderSize, ID3FrameBody, currentPosition)
             unsynchronized == Unsynchronized(bodyFrameHeader)
             bodyFrameSize == getFrameSize(bodyFrameHeader, 4, unsynchronized)
         IN  IF NumAbove(bodyFrameSize, Len(ID3FrameBody) - currentPosition)
             THEN [err |-> "none", frames |-> << >>]
             ELSE IF CopyThrows(ID3FrameBody, currentPosition + textframeHeaderSize)
             THEN [err |-> "RangeError", frames |-> << >>]
             ELSE LET frame ==
                          [name |-> NameOf(bodyFrameHeader, getIdentifierSize(version)),
                           body |-> CopyInto(IntOf(bodyFrameSize), ID3FrameBody,
                                             currentPosition + textframeHeaderSize),
                           unsynchronized |-> unsynchronized,
                           dataLengthIndicator |-> unsynchronized]
                      rest == FramesFrom(ID3FrameBody,
                                         currentPosition + IntOf(bodyFrameSize)
                                         + textframeHeaderSize,
                                         version)
                  IN  [err |-> rest.err, frames |-> << frame >> \o rest.frames]

getFramesFromID3Body(ID3FrameBody, id3Version) == FramesFrom(ID3FrameBody, 0, id3Version)

(***************************************************************************)
(* Decoding helpers.                                                        *)
(***************************************************************************)
\* str.substring(a, b): both clamped to 0..length, swapped when a > b
Substring(str, a, b) ==
    LET ca == IF a < 0 THEN 0 ELSE IF a > Len(str) THEN Len(str) ELSE a
        cb == IF b < 0 THEN 0 ELSE IF b > Len(str) THEN Len(str) ELSE b
        lo == IF ca < cb THEN ca ELSE cb
        hi == IF ca < cb THEN cb ELSE ca
    IN  SubSeq(str, lo + 1, hi)

SubstringFrom(str, a) == Substring(str, a, Len(str))

\* buf.slice(from, to): a negative index counts from the end
BufSlice(b, from, to) ==
    Slice(b, IF from < 0 THEN Len(b) + from ELSE from, IF to < 0 THEN Len(b) + to ELSE to)

BufSliceFrom(b, from) == BufSlice(b, from, Len(b))

\* str.replace(/\0/g, '')
RECURSIVE RemoveNulls(_)
RemoveNulls(str) ==
    IF str = << >> THEN << >>
    ELSE (IF Head(str) = 0 THEN << >> ELSE << Head(str) >>) \o RemoveNulls(Tail(str))

\* the 16-bit units of b from offset i on, little or big endian; an odd last
\* byte is dropped
RECURSIVE Utf16Units(_, _, _)
Utf16Units(b, i, bigEndian) ==
    IF i + 1 >= Len(b) THEN << >>
    ELSE << IF bigEndian THEN At(b, i) * 256 + At(b, i + 1)
            ELSE At(b, i + 1) * 256 + At(b, i) >> \o Utf16Units(b, i + 2, bigEndian)

\* iconv-lite's detection for 'utf16' (0.6, detectEncoding): a byte order
\* mark decides, else the side on which more zero bytes of ASCII characters
\* are found among the first 100 pairs, else little endian
Utf16IsBigEndian(b) ==
    IF Len(b) < 2 THEN FALSE
    ELSE IF b[1] = 254 /\ b[2] = 255 THEN TRUE
    ELSE IF b[1] = 255 /\ b[2] = 254 THEN FALSE
    ELSE LET pairs == { i \in 0..(Len(b) \div 2 - 1) : i < 100 }
             asciiCharsBE == Cardinality({ i \in pairs : At(b, 2 * i) = 0 /\ At(b, 2 * i + 1) # 0 })
             asciiCharsLE == Cardinality({ i \in pairs : At(b, 2 * i) # 0 /\ At(b, 2 * i + 1) = 0 })
         IN  asciiCharsBE > asciiCharsLE

\* iconv.decode(b, 'utf16') and iconv.decode(b, 'UTF-16BE')
Utf16Decode(b) == StripBOM(Utf16Units(b, 0, Utf16IsBigEndian(b)))

Utf16BEDecode(b) == StripBOM(Utf16Units(b, 0, TRUE))

\* iconv.decode(b, getEncodingName(e))
Decode(b, e) ==
    IF e = 0 THEN Latin1Decode(b)
    ELSE IF e = 1 THEN Utf16Decode(b)
    ELSE IF e = 2 THEN Utf16BEDecode(b)
    ELSE Utf8Decode(b)

\* splitMultiValues (index.ts 1936-1947): indexOf is tested for truth, so the
\* string is split unless it starts with the splitter
splitMultiValues(valueString) ==
    IF IndexOf(valueString, multiValueSplitter) # 0
    THEN LET vals == FilterNonEmpty(SplitOn(valueString, multiValueSplitter))
         IN  IF Len(vals) = 1 THEN Str(vals[1]) ELSE Arr(vals)
    ELSE Str(valueString)

\* the decoding of a text frame body in getTagsFromFrames (index.ts 1391-1395)
DecodeTextBody(body) ==
    splitMultiValues(ReplaceAll(Decode(SliceFrom(body, 1), getEncodingByteOfBuffer(body)),
                                << 0 >>, multiValueSplitter))

(***************************************************************************)
(* Special frames: read functions.  A result is [st |-> "ok", val |-> the   *)
(* object returned], [st |-> "hang"] for a call that never returns, or      *)
(* [st |-> "RangeError"] for one that raises.  An absent field of an object *)
(* is << >>, a present one << value >>.                                     *)
(***************************************************************************)
Ok(val) == [st |-> "ok", val |-> val]
Hang == [st |-> "hang", val |-> << >>]
Raise(e) == [st |-> e, val |-> << >>]

EmptyObject == [t |-> "empty"]

\* the while loop of readCommentFrame (index.ts 1844-1848): the value of
\* descriptorEscape when the loop ends, -1 when it never ends.  From the end
\* of the frame on frame[descriptorEscape + 1] is undefined, which is never 0.
DescriptorEscape(frame) ==
    LET stops == { i \in 0..(Len(frame) - 1) :
                     /\ ~(At(frame, i) # -1 /\ At(frame, i) # 0)
                     /\ At(frame, i + 1) = 0
                     /\ At(frame, i + 2) # 0 }
    IN  IF stops = {} THEN -1 ELSE CHOOSE i \in stops : \A j \in stops : i <= j

\* readCommentFrame (index.ts 1831-1863); readUnsynchronisedLyricsFrame
\* (index.ts 1902-1934) has the same body
readCommentFrame(frame) ==
    IF At(frame, 0) = 0
    THEN LET str == Latin1Decode(frame)
             z == IndexOfFrom(frame, << 0 >>, 1)
         IN  Ok([t |-> "comment",
                 language |-> RemoveNulls(Substring(str, 1, 4)),
                 shortText |-> RemoveNulls(Substring(str, 4, z)),
                 text |-> RemoveNulls(SubstringFrom(str, z + 1))])
    ELSE IF At(frame, 0) = 1
    THEN LET descriptorEscape == DescriptorEscape(frame)
         IN  IF descriptorEscape = -1 THEN Hang
             ELSE Ok([t |-> "comment",
                      language |-> RemoveNulls(Substring(Utf8From(frame, 0), 1, 4)),
                      shortText |-> RemoveNulls(Utf16Decode(BufSlice(frame, 4, descriptorEscape))),
                      text |-> RemoveNulls(Utf16Decode(BufSliceFrom(frame, descriptorEscape + 2)))])
    ELSE Ok(EmptyObject)

readUnsynchronisedLyricsFrame(frame) == readCommentFrame(frame)

\* readUserDefinedFrame (index.ts 1949-1969); in the UTF-16 branch the index
\* is halved, and substring truncates the half
readUserDefinedFrame(frame) ==
    LET e == getEncodingByteOfBuffer(frame)
        decodedFrame == Decode(SliceFrom(frame, 1), e)
    IN  IF e = 1 \/ e = 2
        THEN LET idx == IndexOfFrom(frame, << 0, 0 >>, 1)
                 \* Math-truncated descriptionEnd and descriptionEnd + 1
                 endTrunc == IF idx = -1 THEN 0 ELSE idx \div 2
                 nextTrunc == IF idx = -1 THEN 0 ELSE (idx + 2) \div 2
             IN  Ok([t |-> "txxx",
                     description |-> RemoveNulls(Substring(decodedFrame, 0, endTrunc)),
                     values |-> splitMultiValues(ReplaceAll(SubstringFrom(decodedFrame, nextTrunc),
                                                            << 0 >>, multiValueSplitter))])
        ELSE LET idx == IndexOfFrom(frame, << 0 >>, 1)
             IN  Ok([t |-> "txxx",
                     description |-> RemoveNulls(Substring(decodedFrame, 0, idx)),
                     values |-> splitMultiValues(ReplaceAll(SubstringFrom(decodedFrame, idx),
                                                            << 0 >>, multiValueSplitter))])

\* readPopularimeterFrame (index.ts 2025-2047)
readPopularimeterFrame(frame) ==
    LET endEmailIndex == IndexOfFrom(frame, << 0 >>, 1)
        ratingIndex == endEmailIndex + 1
        counterIndex == ratingIndex + 1
        value == BufSliceFrom(frame, counterIndex)
    IN  IF endEmailIndex > -1
        THEN Ok([t |-> "popm",
                 email |-> << Latin1Decode(BufSlice(frame, 0, endEmailIndex)) >>,
                 rating |-> IF ratingIndex < Len(frame) THEN << At(frame, ratingIndex) >>
                            ELSE << >>,
                 counter |-> IF ratingIndex < Len(frame) /\ counterIndex < Len(frame)
                                /\ Len(value) >= 4
                             THEN << ReadNum(value, 0) >> ELSE << >>])
        ELSE Ok(EmptyObject)

\* const APICTypes (index.ts 982-1004)
APICTypes ==
    << "other", "file icon", "other file icon", "front cover", "back cover",
       "leaflet page", "media", "lead artist", "artist", "conductor", "band",
       "composer", "lyricist", "recording location", "during recording",
       "during performance", "video screen capture", "a bright coloured fish",
       "illustration", "band logotype", "publisher logotype" >>

\* the loop of readPictureFrame that drops the 00 after every FF (index.ts 1706-1715)
RECURSIVE DropAfterFF(_, _)
DropAfterFF(b, i) ==
    IF i >= Len(b) THEN << >>
    ELSE << At(b, i) >>
         \o DropAfterFF(b, IF At(b, i) = 255 /\ At(b, i + 1) = 0 THEN i + 2 ELSE i + 1)

\* readPictureFrame (index.ts 1673-1718); descEnd is << >> while undefined
readPictureFrame(APICFrame, unsynchronized, dataLengthIndicator) ==
    LET firstByte == IF dataLengthIndicator THEN 5 ELSE 1
        z == IndexOfFrom(APICFrame, << 0 >>, firstByte)
        ascii == [i \in 1..Len(APICFrame) |-> APICFrame[i] % 128]
        APICMimeType == Substring(ascii, firstByte, z)
        typeId == At(APICFrame, z + 1)
        enc == At(APICFrame, firstByte - 1)
        z2 == IndexOfFrom(APICFrame, << 0 >>, z + 2)
        descOffset == IndexOfFrom(APICFrame, << 0 >>, 1) + 2
        desc == BufSliceFrom(APICFrame, descOffset)
        descFound == IndexOf(desc, << 0, 0 >>)
        description ==
            IF enc = 0 THEN Latin1Decode(BufSlice(APICFrame, z + 2, z2))
            ELSE IF enc = 1 /\ descFound # -1 THEN Utf16Decode(BufSlice(desc, 0, descFound + 2))
            ELSE << >>
        descEnd == IF enc = 0 THEN << z2 >>
                   ELSE IF enc = 1 THEN << descOffset + descFound + 2 >>
                   ELSE << >>
        image == IF descEnd # << >> /\ descEnd[1] # 0
                 THEN BufSliceFrom(APICFrame, descEnd[1] + 1)
                 ELSE BufSliceFrom(APICFrame, z + 2)
    IN  Ok([t |-> "picture",
            mime |-> IF APICMimeType = ImageJpeg THEN "jpeg"
                     ELSE IF APICMimeType = ImagePng THEN "png" ELSE "undefined",
            type |-> [id |-> typeId,
                      name |-> IF typeId >= 0 /\ typeId < Len(APICTypes)
                               THEN APICTypes[typeId + 1] ELSE "undefined"],
            description |-> description,
            imageBuffer |-> IF unsynchronized THEN DropAfterFF(image, 0) ELSE image])

RECURSIVE FoldFrames(_, _, _)
RECURSIVE readChapterFrame(_)

\* f with f[k] = v
Put(f, k, v) == [x \in (DOMAIN f) \cup {k} |-> IF x = k THEN v ELSE f[x]]

\* const tags = { raw: {} }: raw is keyed by frame names, al by aliases
EmptyTags == [t |-> "tags", raw |-> [x \in {} |-> 0], al |-> [x \in {} |-> 0]]

\* SpecialFrames[key].read(frame.body, frame.unsynchronized, frame.dataLengthIndicator)
readSpecial(key, frame) ==
    CASE key = "comment" -> readCommentFrame(frame.body)
      [] key = "image" ->
            readPictureFrame(frame.body, frame.unsynchronized, frame.dataLengthIndicator)
      [] key = "unsynchronisedLyrics" -> readUnsynchronisedLyricsFrame(frame.body)
      [] key = "userDefined" -> readUserDefinedFrame(frame.body)
      [] key = "popularimeter" -> readPopularimeterFrame(frame.body)
      [] key = "chapter" -> readChapterFrame(frame.body)

\* Array.prototype.concat(x, y) of two text values
ConcatValues(x, y) == Arr(x.v \o y.v)

\* the text frame branch of the loop body (index.ts 1389-1411)
TextFrameStep(tags, frame, version) ==
    LET TFrames == getVersionedFrameDefinitions(version)
        decoded == DecodeTextBody(frame.body)
        keys == { key \in DOMAIN TFrames : FrameIdBytes[TFrames[key].key] = frame.name }
        legacy == { id \in DOMAIN LegacyFramesRemapped : FrameIdBytes[id] = frame.name }
        \* the value stored under the alias: split again on the field's separator
        AliasValue(key) ==
            IF version = "ID3v2.3" /\ TFrames[key].multiValueSeparator # << >> /\ ~decoded.arr
            THEN splitMultiValues(ReplaceAll(decoded.v[1], TFrames[key].multiValueSeparator,
                                             multiValueSplitter))
            ELSE decoded
        raw == Put(tags.raw, frame.name, decoded)
    IN  IF keys # {}
        THEN LET key == CHOOSE k \in keys : TRUE
             IN  [tags EXCEPT !.raw = raw, !.al = Put(tags.al, key, AliasValue(key))]
        ELSE IF legacy # {}
        THEN LET id == CHOOSE i \in legacy : TRUE
             IN  [tags EXCEPT !.raw = raw,
                              !.al = Put(tags.al, LegacyFramesRemapped[id], decoded)]
        ELSE [tags EXCEPT !.raw = raw]

\* !!x of a text value: an array is truthy, a string unless it is empty
TruthyText(x) == x.arr \/ x.v[1] # << >>

TXXX == << 84, 88, 88, 88 >>

\* tags[key][decoded.description] (index.ts 1424): << >> for undefined, else
\* the value in a tuple.  props are the entries of the object and proto is
\* << >> while its prototype is Object.prototype, << a >> once the array a
\* was assigned to __proto__.  An entry of the object comes first, then the
\* elements, the length and the members of the array, then the members of
\* Object.prototype
GetProperty(props, proto, d) ==
    IF d \in DOMAIN props THEN << props[d] >>
    ELSE IF d = InheritedNames["__proto__"]
    THEN IF proto = << >> THEN << Str(InheritedMember(d)) >> ELSE << Arr(proto[1]) >>
    ELSE IF proto # << >> /\ \E k \in 1..Len(proto[1]) : d = Digits(k - 1)
    THEN << Str(proto[1][CHOOSE k \in 1..Len(proto[1]) : d = Digits(k - 1)]) >>
    ELSE IF proto # << >> /\ d = << 108, 101, 110, 103, 116, 104 >>
    THEN << Str(NumberValue(Len(proto[1]))) >>
    ELSE IF proto # << >> /\ d \in ArrayNames THEN << Str(ArrayMember(d)) >>
    ELSE IF \E n \in DOMAIN InheritedNames : InheritedNames[n] = d
    THEN << Str(InheritedMember(d)) >>
    ELSE << >>

\* the TXXX branch (index.ts 1420-1431): raw.TXXX and userDefined are two
\* objects description |-> values, filled alike
UserDefinedStep(tags, decoded) ==
    LET fresh == TXXX \notin DOMAIN tags.raw
        rawProps == IF fresh THEN << >> ELSE tags.raw[TXXX].props
        alProps == IF fresh THEN << >> ELSE tags.al["userDefined"].props
        proto == IF fresh THEN << >> ELSE tags.al["userDefined"].proto
        d == decoded.description
        found == GetProperty(alProps, proto, d)
        values == IF found # << >> /\ TruthyText(found[1])
                  THEN ConcatValues(found[1], decoded.values)
                  ELSE decoded.values
        \* obj['__proto__'] = values sets the prototype (values is an array
        \* here) and adds no entry
        isProto == d = InheritedNames["__proto__"]
        Stored(props) == IF isProto THEN props ELSE Put(props, d, values)
        stored == IF isProto THEN << values.v >> ELSE proto
    IN  [tags EXCEPT
           !.raw = Put(tags.raw, TXXX,
                       [t |-> "userDefined", props |-> Stored(rawProps), proto |-> stored]),
           !.al = Put(tags.al, "userDefined",
                      [t |-> "userDefined", props |-> Stored(alProps), proto |-> stored])]

\* a special frame other than TXXX: tags.raw[frame.name] = decoded and
\* tags[key] = decoded
SpecialFrameStep(tags, frame, key, decoded) ==
    [tags EXCEPT !.raw = Put(tags.raw, frame.name, decoded),
                 !.al = Put(tags.al, key, decoded)]

\* the loop of getTagsFromFrames (index.ts 1387-1435) over the frames left
FoldFrames(tags, frames, version) ==
    IF frames = << >> THEN Ok(tags)
    ELSE LET frame == Head(frames)
             keys == { key \in DOMAIN SpecialFrames : FrameIdBytes[SpecialFrames[key]] = frame.name }
         IN  IF Len(frame.name) > 0 /\ frame.name[1] = 84 /\ frame.name # TXXX
             THEN FoldFrames(TextFrameStep(tags, frame, version), Tail(frames), version)
             ELSE IF keys = {} THEN FoldFrames(tags, Tail(frames), version)
             ELSE LET key == CHOOSE k \in keys : TRUE
                      decoded == readSpecial(key, frame)
                  IN  IF decoded.st # "ok" THEN decoded
                      ELSE IF frame.name # TXXX
                      THEN FoldFrames(SpecialFrameStep(tags, frame, key, decoded.val),
                                      Tail(frames), version)
                      ELSE FoldFrames(UserDefinedStep(tags, decoded.val), Tail(frames), version)

\* getTagsFromFrames (index.ts 1381-1438)
getTagsFromFrames(frames, version) == FoldFrames(EmptyTags, frames, version)

\* readChapterFrame (index.ts 2049-2079)
readChapterFrame(frame) ==
    LET endOfElementIDString == IndexOf(frame, << 0 >>)
        e == endOfElementIDString
        startOffset == ReadNum(frame, e + 9)
        endOffset == ReadNum(frame, e + 13)
        chapter == [t |-> "chapter",
                    elementID |-> Latin1Decode(BufSlice(frame, 0, e)),
                    startTimeMs |-> ReadNum(frame, e + 1),
                    endTimeMs |-> ReadNum(frame, e + 5),
                    startOffsetBytes |-> IF startOffset # Num(65535, 65535)
                                         THEN startOffset ELSE Undefined,
                    endOffsetBytes |-> IF endOffset # Num(65535, 65535)
                                       THEN endOffset ELSE Undefined,
                    tags |-> << >>]
    IN  IF e = -1 \/ Len(frame) - e - 1 < 16 THEN Ok(EmptyObject)
        ELSE IF Len(frame) - e - 17 > 0
        THEN LET frames == getFramesFromID3Body(BufSliceFrom(frame, e + 17), "ID3v2.4")
                 sub == getTagsFromFrames(frames.frames, "ID3v2.4")
             IN  IF frames.err # "none" THEN Raise(frames.err)
                 ELSE IF sub.st # "ok" THEN sub
                 ELSE Ok([chapter EXCEPT !.tags = << sub.val >>])
        ELSE Ok(chapter)

(***************************************************************************)
(* getTagsFromBuffer (index.ts 1312-1329).                                  *)
(***************************************************************************)
False == [t |-> "false"]

getTagsFromBuffer(filebuffer) ==
    LET framePosition == getFramePosition(filebuffer)
        tempBuffer == Slice(filebuffer, framePosition, framePosition + 10)
        id3Version == getTagVersion(tempBuffer)
        frameSize == getTagsSize(tempBuffer) + 10
        ID3FrameBody == CopyInto(frameSize - 10 + 1, filebuffer, framePosition + 10)
        frames == getFramesFromID3Body(ID3FrameBody, id3Version)
    IN  IF framePosition = -1 THEN Ok(False)
        ELSE IF id3Version = "unknown" THEN Ok(False)
        ELSE IF CopyThrows(filebuffer, framePosition + 10) THEN Raise("RangeError")
        ELSE IF frames.err # "none" THEN Raise(frames.err)
        ELSE getTagsFromFrames(frames.frames, id3Version)

(***************************************************************************)
(* write(tags, path) without a callback (index.ts 1077-1159).  A file is    *)
(* the sequence of its bytes.                                               *)
(***************************************************************************)
\* the value false of removeTagsFromBuffer
FalseBuffer == << -1 >>

\* removeTagsFromBuffer (index.ts 1507-1517)
removeTagsFromBuffer(data) ==
    LET framePosition == getFramePosition(data)
        size == getTagHeaderSize(data)
    IN  IF framePosition = -1 THEN data
        ELSE IF size < 0 THEN FalseBuffer
        ELSE SliceFrom(data, framePosition + size + 10)

\* getPaddingBuffer (index.ts 1144-1149)
getPaddingBuffer(size) == Zeros(size)

\* fs.readSync(fd, header, 0, 25, 0) into Buffer.alloc(25)
ReadHeader(bytes) == CopyInto(25, bytes, 0)

\* fs.writeSync(fd, buf, 0, length): the first length bytes of buf replace
\* the bytes of the file from its start, the file position of a descriptor
\* that was only read with an explicit position
WriteSync(bytes, buf, length) ==
    SubSeq(buf, 1, length) \o SubSeq(bytes, length + 1, Len(bytes))

\* write(tags, path) without a callback (index.ts 1077-1078, 1113-1137): the
\* bytes of the file after the call on a file that holds bytes, or
\* RangeError when create raised it: create is called before the try, so the
\* error leaves write and the file is not touched
writeFile(tags, bytes) ==
    LET Written(completeTag) ==
            LET header == ReadHeader(bytes)
                fileHeaderSize == getTagHeaderSize(header)
                updatedTagHeaderSize == getTagHeaderSize(completeTag)
            IN  IF fileHeaderSize >= updatedTagHeaderSize
                   /\ fileHeaderSize - MaxReusedPadding <= updatedTagHeaderSize
                THEN LET paddingSize == fileHeaderSize - updatedTagHeaderSize
                         padding == getPaddingBuffer(paddingSize)
                         writeTag == writeTagHeaderSize(fileHeaderSize, completeTag) \o padding
                     IN  WriteSync(bytes, writeTag, fileHeaderSize)
                ELSE LET data == IF removeTagsFromBuffer(bytes) = FalseBuffer THEN bytes
                                 ELSE removeTagsFromBuffer(bytes)
                         padding == getPaddingBuffer(DEFAULT_PADDING_SIZE)
                     IN  writeTagHeaderSize(getTagHeaderSize(completeTag)
                                            + DEFAULT_PADDING_SIZE, completeTag)
                         \o padding \o data
    IN  CHOOSE w \in { IF completeTag = RangeError THEN RangeError
                       ELSE Written(completeTag) :
                       completeTag \in { create(tags) } } : TRUE

\* removeTags(path) without a callback (index.ts 1524-1543): the value it
\* returns and the bytes of the file after the call on a file that holds
\* bytes.  fs.writeFileSync replaces the whole file
removeTags(bytes) ==
    LET newData == removeTagsFromBuffer(bytes)
    IN  IF newData = FalseBuffer THEN [st |-> "false", file |-> bytes]
        ELSE [st |-> "true", file |-> newData]

(***************************************************************************)
(* update(tags, buffer) without a callback (index.ts 1263-1289) and the     *)
(* Buffer branch of write (index.ts 1081-1090).  An object is the sequence  *)
(* of its [key, value] pairs in the order of Object.keys.                   *)
(***************************************************************************)
\* obj[key] = value: the value of an existing key is replaced where it is, a
\* new key is added at the end
RECURSIVE Assign(_, _, _)
Assign(obj, key, value) ==
    IF obj = << >> THEN << [key |-> key, value |-> value] >>
    ELSE IF Head(obj).key = key THEN << [key |-> key, value |-> value] >> \o Tail(obj)
    ELSE << Head(obj) >> \o Assign(Tail(obj), key, value)

\* String(TFrames[tagKey]), the property name an entry of the table makes
ObjectAsKey == "[object Object]"

\* the first loop of update (index.ts 1266-1283)
RECURSIVE RawTagsOf(_, _)
RawTagsOf(tags, rawTags) ==
    IF tags = << >> THEN rawTags
    ELSE LET tagKey == Head(tags).key
             TFrames == getVersionedFrameDefinitions("ID3v2.4")
             next == IF tagKey \in DOMAIN TFrames
                     THEN Assign(rawTags, ObjectAsKey, Head(tags).value)
                     \* TFrames[tagKey] is a member of Object.prototype
                     ELSE IF tagKey \in DOMAIN InheritedNames
                     THEN Assign(rawTags, InheritedToString[tagKey], Head(tags).value)
                     ELSE IF tagKey \in DOMAIN SpecialFrames
                     THEN Assign(rawTags, SpecialFrames[tagKey], Head(tags).value)
                     ELSE IF IsTextFrameValue(TFrames, tagKey)
                     THEN Assign(rawTags, tagKey, Head(tags).value)
                     ELSE IF IsSpecialFrameName(tagKey)
                     THEN Assign(rawTags, tagKey, Head(tags).value)
                     ELSE rawTags
         IN  RawTagsOf(Tail(tags), next)

\* the frames getTagsFromBuffer splits the tag of filebuffer into (index.ts
\* 1316-1326)
BodyFramesOf(filebuffer) ==
    LET framePosition == getFramePosition(filebuffer)
        tempBuffer == Slice(filebuffer, framePosition, framePosition + 10)
        frameSize == getTagsSize(tempBuffer) + 10
        ID3FrameBody == CopyInto(frameSize - 10 + 1, filebuffer, framePosition + 10)
    IN  getFramesFromID3Body(ID3FrameBody, getTagVersion(tempBuffer)).frames

\* the elements of a sequence in the order of their first occurrence
RECURSIVE Distinct(_, _)
Distinct(seq, seen) ==
    IF seq = << >> THEN << >>
    ELSE IF Head(seq) \in seen THEN Distinct(Tail(seq), seen)
    ELSE << Head(seq) >> \o Distinct(Tail(seq), seen \cup { Head(seq) })

\* the frame identifier a frame name spells; a name of no table is a key
\* createBuffersFromTags makes no frame of
NameString(name) ==
    IF \E id \in DOMAIN FrameIdBytes : FrameIdBytes[id] = name
    THEN CHOOSE id \in DOMAIN FrameIdBytes : FrameIdBytes[id] = name
    ELSE "unsupported"

\* the descriptions of the TXXX frames, the keys of raw.TXXX in their order
RECURSIVE DescriptionsOf(_)
DescriptionsOf(frames) ==
    IF frames = << >> THEN << >>
    ELSE (IF Head(frames).name = TXXX
          THEN << readUserDefinedFrame(Head(frames).body).val.description >> ELSE << >>)
         \o DescriptionsOf(Tail(frames))

\* a property name that is an array index: a canonical number below 2^32 - 1
IndexLess(a, b) ==
    \/ Len(a) < Len(b)
    \/ /\ Len(a) = Len(b)
       /\ \E i \in 1..Len(a) : a[i] < b[i] /\ \A j \in 1..(i - 1) : a[j] = b[j]

IsIndexKey(d) ==
    /\ Len(d) > 0
    /\ \A i \in 1..Len(d) : d[i] >= 48 /\ d[i] <= 57
    /\ Len(d) = 1 \/ d[1] # 48
    /\ LET largest == << 52, 50, 57, 52, 57, 54, 55, 50, 57, 52 >>
       IN  d = largest \/ IndexLess(d, largest)

RECURSIVE SortedIndexKeys(_)
SortedIndexKeys(S) ==
    IF S = {} THEN << >>
    ELSE LET m == CHOOSE x \in S : \A y \in S \ { x } : IndexLess(x, y)
         IN  << m >> \o SortedIndexKeys(S \ { m })

\* Object.keys of an object whose keys were added in the order of keys:
\* the array indices in ascending order, then the other names as added
KeyOrder(keys) ==
    SortedIndexKeys({ keys[i] : i \in { x \in DOMAIN keys : IsIndexKey(keys[x]) } })
    \o SelectSeq(keys, LAMBDA d : ~IsIndexKey(d))

\* the last frame of frames with the identifier name
LastFrameOf(frames, name) ==
    LET last == CHOOSE i \in DOMAIN frames :
                    /\ frames[i].name = name
                    /\ \A j \in DOMAIN frames : frames[j].name = name => j <= i
    IN  frames[last]

\* the alias getTagsFromFrames stores a frame of a v2.4 tag under, "" for a
\* frame it stores under none
AliasOfFrame(frame) ==
    LET TFrames == getVersionedFrameDefinitions("ID3v2.4")
        keys == { key \in DOMAIN TFrames : FrameIdBytes[TFrames[key].key] = frame.name }
        legacy == { id \in DOMAIN LegacyFramesRemapped : FrameIdBytes[id] = frame.name }
        special == { key \in DOMAIN SpecialFrames :
                       FrameIdBytes[SpecialFrames[key]] = frame.name }
    IN  IF Len(frame.name) > 0 /\ frame.name[1] = 84 /\ frame.name # TXXX
        THEN IF keys # {} THEN CHOOSE k \in keys : TRUE
             ELSE IF legacy # {} THEN LegacyFramesRemapped[CHOOSE i \in legacy : TRUE]
             ELSE ""
        ELSE IF special # {} THEN CHOOSE k \in special : TRUE
        ELSE ""

RECURSIVE AsCreated(_, _, _)

\* the tags embedded in a chapter as createChapterFrameHelper takes them back
\* (chapter.tags): al is their alias view and frames the embedded frames; the
\* aliases come in the order in which the frames first stored them.  The key
\* raw of the object names no frame and is left out.
AliasFields(al, frames) ==
    LET stored == SelectSeq([i \in 1..Len(frames) |-> AliasOfFrame(frames[i])],
                            LAMBDA key : key \in DOMAIN al)
        keys == Distinct(stored, {})
    IN  [i \in 1..Len(keys) |->
            [key |-> keys[i],
             value |-> IF keys[i] \in DOMAIN SpecialFrames
                       THEN AsCreated(SpecialFrames[keys[i]], al[keys[i]], frames)
                       ELSE al[keys[i]]]]

\* the frames embedded in the chapter frame body (index.ts 2071-2075)
EmbeddedFrames(body) ==
    getFramesFromID3Body(BufSliceFrom(body, IndexOf(body, << 0 >>) + 17), "ID3v2.4").frames

\* an object returned by a read function as the create function of the same
\* frame takes it: the fields the reader left out are undefined
AsCreated(id, value, frames) ==
    CASE id \in { "COMM", "USLT" } ->
            IF value.t = "empty" THEN [language |-> << >>, shortText |-> << >>, text |-> << >>]
            ELSE [language |-> value.language, shortText |-> value.shortText,
                  text |-> value.text]
      [] id = "APIC" -> value.imageBuffer
      [] id = "TXXX" ->
            LET descriptions ==
                    KeyOrder(SelectSeq(Distinct(DescriptionsOf(frames), {}),
                                       LAMBDA d : d \in DOMAIN value.props))
            IN  [i \in 1..Len(descriptions) |->
                    [desc |-> descriptions[i], value |-> value.props[descriptions[i]]]]
      [] id = "POPM" ->
            IF value.t = "empty"
            THEN [email |-> << >>, rating |-> [nan |-> TRUE, n |-> 0],
                  counter |-> [nan |-> TRUE, neg |-> FALSE, num |-> Num(0, 0)]]
            ELSE [email |-> value.email[1],
                  rating |-> IF value.rating = << >> THEN [nan |-> TRUE, n |-> 0]
                             ELSE [nan |-> FALSE, n |-> value.rating[1]],
                  counter |-> IF value.counter = << >>
                              THEN [nan |-> TRUE, neg |-> FALSE, num |-> Num(0, 0)]
                              ELSE [nan |-> FALSE, neg |-> FALSE, num |-> value.counter[1]]]
      [] id = "CHAP" ->
            [multiple |-> FALSE,
             list |-> << IF value.t = "empty"
                         THEN [elementID |-> << >>, startTimeMs |-> Undefined,
                               endTimeMs |-> Undefined, startOffsetBytes |-> Undefined,
                               endOffsetBytes |-> Undefined, tags |-> << >>]
                         ELSE [elementID |-> value.elementID,
                               startTimeMs |-> value.startTimeMs,
                               endTimeMs |-> value.endTimeMs,
                               startOffsetBytes |-> value.startOffsetBytes,
                               endOffsetBytes |-> value.endOffsetBytes,
                               tags |-> IF value.tags = << >> THEN << >>
                                        ELSE AliasFields(
                                                 value.tags[1].al,
                                                 EmbeddedFrames(
                                                     LastFrameOf(frames, FrameIdBytes["CHAP"]).body))] >>]
      [] OTHER -> value

\* currentTags.raw as an object (index.ts 1285-1286): the frame names in the
\* order in which getTagsFromFrames first stored them
RawObject(raw, frames) ==
    LET stored == SelectSeq([i \in 1..Len(frames) |-> frames[i].name],
                            LAMBDA name : name \in DOMAIN raw)
        names == Distinct(stored, {})
    IN  [i \in 1..Len(names) |->
            [key |-> NameString(names[i]),
             value |-> AsCreated(NameString(names[i]), raw[names[i]], frames)]]

\* the second loop of update (index.ts 1288-1290)
RECURSIVE AssignAll(_, _)
AssignAll(currentTags, rawTags) ==
    IF rawTags = << >> THEN currentTags
    ELSE AssignAll(Assign(currentTags, Head(rawTags).key, Head(rawTags).value), Tail(rawTags))

\* write(tags, filebuffer) of a Buffer (index.ts 1077-1090): the buffer
\* returned, or RangeError when create raised it
writeBuffer(tags, filebuffer) ==
    LET rest == IF removeTagsFromBuffer(filebuffer) = FalseBuffer THEN filebuffer
                ELSE removeTagsFromBuffer(filebuffer)
    IN  CHOOSE w \in { IF completeTag = RangeError THEN RangeError
                       ELSE completeTag \o rest :
                       completeTag \in { create(tags) } } : TRUE

\* update (index.ts 1263-1291): [st |-> "ok", what the read ended with or
\* the RangeError that left write, buffer |-> the buffer returned].  The result of the read, the frames and
\* currentTags are each bound to their value, so that it is computed once.
update(tags, filebuffer) ==
    LET rawTags == RawTagsOf(tags, << >>)
        Written(read) ==
            IF read.st # "ok" THEN [st |-> read.st, buffer |-> << >>]
            ELSE LET Merged(frames) ==
                         AssignAll(IF read.val.t = "tags" THEN RawObject(read.val.raw, frames)
                                   ELSE << >>,
                                   rawTags)
                 IN  CHOOSE w \in { IF completeBuffer = RangeError
                                    THEN [st |-> "RangeError", buffer |-> << >>]
                                    ELSE [st |-> "ok", buffer |-> completeBuffer] :
                                    completeBuffer \in
                                        { writeBuffer(currentTags, filebuffer) :
                                            currentTags \in
                                                { Merged(frames) :
                                                    frames \in { BodyFramesOf(filebuffer) } } } } :
                         TRUE
    IN  CHOOSE w \in { Written(read) : read \in { getTagsFromBuffer(filebuffer) } } : TRUE

(***************************************************************************)
(* update(tags, path, fn) with a callback (index.ts 1292-1305), which ends  *)
(* in write(currentTags, path, fn) (index.ts 1092-1105).  The call is a     *)
(* chain of callbacks: the read of update, the read of write, and           *)
(* fs.writeFile, which opens the file with flag 'w' (the file is empty from *)
(* then on) and writes the bytes afterwards.                                *)
(***************************************************************************)
\* the callback update hands to read (index.ts 1293-1303) on the bytes data
\* of the file: [st |-> "ok" or what getTagsFromBuffer ended with,
\* tags |-> currentTags after the loop]
MergedWith(rawTags, data) ==
    LET Of(read) ==
            IF read.st # "ok" THEN [st |-> read.st, tags |-> << >>]
            ELSE CHOOSE w \in { [st |-> "ok",
                                 tags |-> AssignAll(IF read.val.t = "tags"
                                                    THEN RawObject(read.val.raw, frames)
                                                    ELSE << >>,
                                                    rawTags)] :
                                    frames \in { BodyFramesOf(data) } } : TRUE
    IN  CHOOSE w \in { Of(read) : read \in { getTagsFromBuffer(data) } } : TRUE

\* a mutant of currentTagsOf: the fields of the call are not assigned
currentTagsOfNothing(tags, data) == MergedWith(<< >>, data)

\* rawTags of the call (index.ts 1264-1283) merged by the callback
currentTagsOf(tags, data) == MergedWith(RawTagsOf(tags, << >>), data)

\* the callback write hands to fs.readFile (index.ts 1094-1101): rewriteFile
rewriteFileOf(completeTag, data) ==
    completeTag \o (IF removeTagsFromBuffer(data) = FalseBuffer THEN data
                    ELSE removeTagsFromBuffer(data))

(***************************************************************************)
(* Inputs.                                                                  *)
(***************************************************************************)
SizeDigits == (0..MaxDigit) \cup {127 - d : d \in 0..MaxDigit}

SizeInputs ==
    { a * 2097152 + b * 16384 + c * 128 + d : a, b, c, d \in SizeDigits }

\* the characters of the input strings: NUL, 'A', 'B', e acute
Alphabet == {0, 65, 66, 233}

RECURSIVE StringsUpTo(_)
StringsUpTo(n) ==
    IF n = 0 THEN { << >> }
    ELSE StringsUpTo(n - 1)
         \cup { Append(str, c) : str \in { x \in StringsUpTo(n - 1) : Len(x) = n - 1 },
                                 c \in Alphabet }

Song == << 83, 111, 110, 103 >>

\* U+1F600 as its surrogate pair D83D DE00
Emoji == << 55357, 56832 >>

\* the splitter itself, the splitter between two characters, a string that
\* starts with a byte order mark, "Song"
SpecialStrings ==
    { multiValueSplitter, << 65 >> \o multiValueSplitter \o << 66 >>, << 65279, 65 >>, Song,
      Emoji, << Emoji[1] >> }

TextStrings == StringsUpTo(MaxStrLen) \cup SpecialStrings

ArrayElements == { << >>, << 65 >>, << 66 >> }

Arrays == UNION { [1..k -> ArrayElements] : k \in 0..MaxArr }

TextValues == { Str(str) : str \in TextStrings } \cup { Arr(a) : a \in Arrays }

Field(k, v) == [key |-> k, value |-> v]

TextKeys == { "title", "artist", "TIT2", "TPE1" }

SingleTextTags == { << Field(k, v) >> : k \in TextKeys, v \in TextValues }

PairValues == { Str(Song), Str(<< 65 >>), Str(<< >>), Arr(<< << 65 >>, << 66 >> >>) }

PairTags ==
    { << Field(k[1], v1), Field(k[2], v2) >> :
        k \in { << "title", "artist" >>, << "artist", "title" >>, << "TIT2", "TPE1" >> },
        v1 \in PairValues, v2 \in PairValues }

CommentInputs ==
    [ language : { << >>, << 101, 110 >>, << 101, 110, 103, 108 >> },
      shortText : { << >>, << 65 >> },
      text : { << >>, << 65 >> } ]

CommentTags ==
    { << Field(k, c) >> : k \in { "comment", "COMM", "unsynchronisedLyrics", "USLT" },
                          c \in CommentInputs }

Prop(d, v) == [desc |-> d, value |-> v]

UserDefinedInputs ==
    { << >>,
      << Prop(<< 65 >>, Str(<< 66 >>)) >>,
      << Prop(<< 65 >>, Arr(<< << 65 >>, << 66 >> >>)) >>,
      << Prop(<< 65 >>, Str(<< 66 >>)), Prop(<< 66 >>, Str(<< 65 >>)) >> }

UserDefinedTags == { << Field(k, u) >> : k \in { "userDefined", "TXXX" }, u \in UserDefinedInputs }

JsNumber(n) == [nan |-> FALSE, n |-> n]
JsNaN == [nan |-> TRUE, n |-> 0]

\* counters: hi * 65536 + lo, its negative, not a number
JsCount(hi, lo) == [nan |-> FALSE, neg |-> FALSE, num |-> Num(hi, lo)]
JsNegative(hi, lo) == [nan |-> FALSE, neg |-> TRUE, num |-> Num(hi, lo)]
JsNaNCount == [nan |-> TRUE, neg |-> FALSE, num |-> Num(0, 0)]

PopularimeterInputs ==
    [ email : { << >>, << 65 >> },
      rating : { JsNaN, JsNumber(-1), JsNumber(0), JsNumber(255), JsNumber(256) },
      \* not a number, -1, 0, 258, 2^31, 2^32 - 1
      counter : { JsNaNCount, JsNegative(0, 1), JsCount(0, 0), JsCount(0, 258),
                  JsCount(32768, 0), JsCount(65535, 65535) } ]

\* counters of 2^32, 2^32 + 258 and 2^33 - 1
LargeCounters == { JsCount(65536, 0), JsCount(65536, 258), JsCount(131071, 65535) }

\* the objects handed to createPopularimeterFrame alone
PopularimeterObjects ==
    PopularimeterInputs \cup
    [ email : { << >>, << 65 >> }, rating : { JsNumber(0), JsNumber(255) },
      counter : LargeCounters ]

PopularimeterTags ==
    { << Field(k, v) >> : k \in { "popularimeter", "POPM" }, v \in PopularimeterInputs }

\* the bytes of the short images: NUL and the bytes of the JPEG signature
ImageBytes == { 0, 216, 255 }

RECURSIVE ImagesUpTo(_)
ImagesUpTo(n) ==
    IF n = 0 THEN { << >> }
    ELSE ImagesUpTo(n - 1) \cup
         { Append(b, c) : b \in { x \in ImagesUpTo(n - 1) : Len(x) = n - 1 }, c \in ImageBytes }

\* an empty buffer, a JPEG, a PNG, a JPEG of LargeImage bytes, the short images
ImageInputs ==
    { << >>, << 255, 216, 255, 1 >>, << 137, 80, 255, 0 >>,
      << 255, 216 >> \o [i \in 1..(LargeImage - 2) |-> 1] }
    \cup ImagesUpTo(MaxImage)

ImageTags == { << Field(k, v) >> : k \in { "image", "APIC" }, v \in ImageInputs }

\* chapter offsets: absent, 0, 1, 2^32 - 2
OffsetInputs == { Undefined, Num(0, 0), Num(0, 1), Num(65535, 65534) }

ChapterInputs ==
    [ elementID : { << >>, << 99 >> },
      startTimeMs : { Undefined, Num(0, 0), Num(1, 2) },
      endTimeMs : { Undefined, Num(0, 0), Num(3, 4) },
      startOffsetBytes : OffsetInputs,
      endOffsetBytes : OffsetInputs,
      tags : { << >>, << Field("title", Str(<< 65 >>)) >> } ]

ValidChapter(c) ==
    c.elementID # << >> /\ c.startTimeMs # Undefined /\ ~FalsyNum(c.endTimeMs)

\* one chapter, and arrays of two chapters without offsets
ChapterValues ==
    { [multiple |-> FALSE, list |-> << c >>] : c \in ChapterInputs }
    \cup { [multiple |-> TRUE, list |-> << c, d >>] :
             c, d \in { x \in ChapterInputs : x.startOffsetBytes = Undefined
                                               /\ x.endOffsetBytes = Undefined
                                               /\ x.startTimeMs # Undefined
                                               /\ x.tags = << >> } }

ChapterTags == { << Field(k, v) >> : k \in { "chapter", "CHAP" }, v \in ChapterValues }

\* a text field next to a special frame, in both orders of the keys: the
\* special frame with and without its required field
MixedSpecials ==
    { Field("comment", [language |-> << >>, shortText |-> << 65 >>, text |-> << >>]),
      Field("comment", [language |-> << >>, shortText |-> << >>, text |-> << 65 >>]),
      Field("USLT", [language |-> << >>, shortText |-> << >>, text |-> << >>]),
      Field("popularimeter", [email |-> << >>, rating |-> JsNumber(255),
                              counter |-> JsCount(0, 258)]),
      Field("chapter", [multiple |-> FALSE,
                        list |-> << [elementID |-> << 99 >>, startTimeMs |-> Num(1, 2),
                                     endTimeMs |-> Undefined, startOffsetBytes |-> Undefined,
                                     endOffsetBytes |-> Undefined, tags |-> << >>] >>]) }

MixedTags ==
    { << Field("title", Str(Song)), f >> : f \in MixedSpecials }
    \cup { << f, Field("title", Str(Song)) >> : f \in MixedSpecials }

\* tags that name one special frame twice, by its alias and by its
\* identifier, with different values
RepeatedTags ==
    { << Field(k[1], [language |-> << >>, shortText |-> << >>, text |-> v[1]]),
         Field(k[2], [language |-> << >>, shortText |-> << >>, text |-> v[2]]) >> :
        k \in { << "comment", "COMM" >>, << "USLT", "unsynchronisedLyrics" >> },
        v \in { << << 65 >>, << 66 >> >>, << << 66 >>, << 65 >> >> } }

\* a key that names a member of Object.prototype and no frame
InheritedTags == { << Field("constructor", Str(<< 65 >>)) >> }

TagInputs ==
    { << >> } \cup SingleTextTags \cup PairTags \cup CommentTags \cup UserDefinedTags
    \cup PopularimeterTags \cup ImageTags \cup ChapterTags \cup MixedTags \cup RepeatedTags
    \cup InheritedTags

\* bytes in front of a tag
Prefix(k) == [i \in 1..k |-> 32]

\* the offsets at which a foreign buffer holds its signature
PrefixLens == {0} \cup ((MaxFramePosition - 1)..MaxPrefix)

VersionBytes == { 2, 3, 4, 5 }

TIT2Frame == createTextFrame("TIT2", Str(<< 65 >>))

\* what follows the header of a foreign tag: nothing, a text frame, a COMM frame
\* of one byte, a text frame and one more byte, a frame cut short, a frame
\* header cut short
ForeignBodies ==
    { << >>,
      TIT2Frame,
      FrameHeader("COMM", 1) \o << 1 >>,
      TIT2Frame \o << 84 >>,
      FrameHeader("TIT2", 5) \o << 3, 65 >>,
      SubSeq(FrameHeader("TIT2", 5), 1, 8) }

\* the size field of a foreign tag: the length of its body, or a field whose
\* last byte has its high bit set
SizeFields(body) == { encodeSize(Len(body)), << 0, 0, 0, 128 + Len(body) >> }

TagBytes(v, size, body) == ID3 \o << v, 0, 0 >> \o size \o body

ForeignBuffers ==
    { Prefix(k) \o TagBytes(v, size, body) :
        k \in PrefixLens, v \in VersionBytes,
        size \in UNION { SizeFields(b) : b \in ForeignBodies }, body \in ForeignBodies }
    \cup { Prefix(k) \o SubSeq(TagBytes(v, << 0, 0, 0, 0 >>, << >>), 1, n) :
             k \in PrefixLens, v \in VersionBytes, n \in { 3, 4, 9 } }
    \cup { Prefix(k) : k \in PrefixLens }

\* a frame as getFramesFromID3Body returns it
Frame(name, body) ==
    [name |-> name, body |-> body, unsynchronized |-> FALSE, dataLengthIndicator |-> FALSE]

\* its bytes in a v2.3 or v2.4 tag
FrameBytes(f) == f.name \o UInt32BE(Len(f.body)) \o << 0, 0 >> \o f.body

RECURSIVE FramesBytes(_)
FramesBytes(fs) == IF fs = << >> THEN << >> ELSE FrameBytes(Head(fs)) \o FramesBytes(Tail(fs))

FrameT == Frame(FrameIdBytes["TIT2"], << 3, 65, 0 >>)
FrameP == Frame(FrameIdBytes["TPE1"], << 3, 66, 0 >>)

PrecedingFrames == { << >>, << FrameT >>, << FrameT, FrameP >> }

\* what follows the preceding frames in a frame body handed to the splitter:
\*   zeros   - n zero bytes
\*   overrun - a ten byte frame header that declares more bytes than the
\*             present ones that follow it
\*   cut     - the first present bytes of a ten byte frame header that declares
\*             declared bytes
Tails ==
    { [kind |-> "zeros", declared |-> 0, present |-> n] : n \in 0..MaxZeros }
    \cup { [kind |-> "overrun", declared |-> p + d, present |-> p] :
             p \in { 0, 2 }, d \in { 1, 9, 10, 11, 100 } }
    \cup { [kind |-> "cut", declared |-> d, present |-> p] : d \in { 0, 5 }, p \in { 1, 8, 9 } }

TailBytes(t) ==
    IF t.kind = "zeros" THEN Zeros(t.present)
    ELSE IF t.kind = "overrun"
    THEN FrameHeader("TALB", t.declared) \o SubSeq(<< 3, 65 >>, 1, t.present)
    ELSE SubSeq(FrameHeader("TALB", t.declared), 1, t.present)

SplitVersions == { "ID3v2.2", "ID3v2.3", "ID3v2.4" }

NoBuffer == << >>

\* no file is in use
NoFile == << >>

\* audio whose bytes 5..8 all have their high bit set
AudioHigh == << 255, 251, 144, 100, 255, 255, 255, 255, 255, 7 >>

\* audio whose bytes 5..8 are 00 00 00 20
AudioLow == << 255, 251, 144, 100, 0, 0, 0, 0, 32, 1, 2, 3 >>

\* audio of two bytes
AudioShort == << 255, 251 >>

Audios == { AudioHigh, AudioLow, AudioShort }

\* the frame TIT2 = "B" as another program wrote it
FrameB == FrameBytes(Frame(FrameIdBytes["TIT2"], << 3, 66, 0 >>))

\* the bodies of the tags the files start with: one frame and no padding,
\* one frame and ten bytes that are not zero, padding of MaxReusedPadding
\* bytes and a few more after a frame
FileTagBodies ==
    { FrameB,
      FrameB \o [i \in 1..10 |-> 1],
      FrameB \o Zeros(MaxReusedPadding),
      FrameB \o Zeros(MaxReusedPadding + 1),
      FrameB \o Zeros(MaxReusedPadding + 4) }

TaggedFiles ==
    { TagBytes(4, encodeSize(Len(body)), body) \o AudioHigh : body \in FileTagBodies }

InitialFiles == Audios \cup TaggedFiles

\* a file that starts with a tag header whose size bytes have a high bit set
TagHighBit == ID3 \o << 4, 0, 0, 0, 0, 0, 128 >> \o AudioShort

\* the buffers handed to update: an empty buffer, and the tags create makes
\* of these fields
UpdateBaseTags ==
    { << >>,
      << Field("artist", Str(<< 66 >>)) >>,
      << Field("title", Str(<< 66 >>)) >>,
      << Field("comment", [language |-> << >>, shortText |-> << >>, text |-> << 66 >>]) >>,
      << Field("artist", Str(<< 66 >>)),
         Field("comment", [language |-> << >>, shortText |-> << >>, text |-> << 66 >>]) >>,
      << Field("image", << 255, 216, 255, 1 >>) >>,
      << Field("popularimeter", [email |-> << 65 >>, rating |-> JsNumber(255),
                                 counter |-> JsCount(0, 258)]) >>,
      << Field("userDefined", << Prop(<< 65 >>, Str(<< 66 >>)), Prop(<< 66 >>, Str(<< 65 >>)) >>) >>,
      << Field("chapter", [multiple |-> FALSE,
                           list |-> << [elementID |-> << 99 >>, startTimeMs |-> Num(1, 2),
                                        endTimeMs |-> Num(3, 4), startOffsetBytes |-> Undefined,
                                        endOffsetBytes |-> Undefined,
                                        tags |-> << Field("title", Str(<< 65 >>)) >>] >>]) >> }

UpdateBases == { NoBuffer } \cup { create(tags) : tags \in UpdateBaseTags }

\* tags whose create raises RangeError: a play counter of 2^32
RaisingTags ==
    << Field("popularimeter", [email |-> << 65 >>, rating |-> JsNumber(255),
                               counter |-> JsCount(65536, 0)]) >>

\* the tags handed to update
UpdateTags ==
    { << >>, RaisingTags,
      << Field("title", Str(<< 65 >>)) >>,
      << Field("TIT2", Str(<< 65 >>)) >>,
      << Field("comment", [language |-> << >>, shortText |-> << >>, text |-> << 65 >>]) >>,
      << Field("COMM", [language |-> << >>, shortText |-> << >>, text |-> << 65 >>]) >>,
      << Field("title", Str(<< 65 >>)), Field("artist", Str(Song)) >> }

\* the tags written: none (no frame), a title of 13 and one of 16 bytes, and
\* tags that raise
WriteTags ==
    { << >>, << Field("title", Str(<< 65 >>)) >>, << Field("title", Str(Song)) >>,
      RaisingTags }

\* frames of a tag that did not come from create: TDRC "A", TYER "B",
\* TPE1 "A / B", and TXXX frames with description and value A:X, A:Y, B:X
FrameDate == Frame(FrameIdBytes["TDRC"], << 3, 65, 0 >>)
FrameYear == Frame(FrameIdBytes["TYER"], << 3, 66, 0 >>)
FrameArtists == Frame(FrameIdBytes["TPE1"], << 3, 65, 32, 47, 32, 66, 0 >>)
FrameUserAX == Frame(FrameIdBytes["TXXX"], << 3, 65, 0, 88, 0 >>)
FrameUserAY == Frame(FrameIdBytes["TXXX"], << 3, 65, 0, 89, 0 >>)
FrameUserBX == Frame(FrameIdBytes["TXXX"], << 3, 66, 0, 88, 0 >>)

FramePool ==
    { FrameT, FrameDate, FrameYear, FrameArtists, FrameUserAX, FrameUserAY, FrameUserBX }

RECURSIVE FrameListsUpTo(_)
FrameListsUpTo(n) ==
    IF n = 0 THEN { << >> }
    ELSE FrameListsUpTo(n - 1) \cup
         { Append(fs, f) : fs \in { x \in FrameListsUpTo(n - 1) : Len(x) = n - 1 },
                           f \in FramePool }

\* frames of fields with a separator of their own in a v2.3 tag: TPE1 with
\* the values "A / B" and "C", TCON "A;B", TCON with the values "A;B" and "C"
FrameArtistsMany == Frame(FrameIdBytes["TPE1"], << 3, 65, 32, 47, 32, 66, 0, 67 >>)
FrameGenres == Frame(FrameIdBytes["TCON"], << 3, 65, 59, 66 >>)
FrameGenresMany == Frame(FrameIdBytes["TCON"], << 3, 65, 59, 66, 0, 67 >>)

SeparatorFrames == { FrameArtistsMany, FrameGenres, FrameGenresMany }

\* frames whose text begins with a null byte: TIT2 with the text 00 'A', TXXX
\* with the description 'A' and the value 00 'X'; and TIT2 with 'A' 00 'B'
FrameLeadingNull == Frame(FrameIdBytes["TIT2"], << 3, 0, 65 >>)
FrameUserLeadingNull == Frame(FrameIdBytes["TXXX"], << 3, 65, 0, 0, 88 >>)
FrameInnerNull == Frame(FrameIdBytes["TIT2"], << 3, 65, 0, 66 >>)

NullFrames == { FrameLeadingNull, FrameUserLeadingNull, FrameInnerNull }

\* tags with two TIT2 frames of different texts: 'A' 00 'B' and 'A'
RepeatedFrames == { << FrameInnerNull, FrameT >>, << FrameT, FrameInnerNull >> }

\* TXXX frames whose description names a member of Object.prototype:
\* 'constructor' with the value 'v', '__proto__' with the value 'v'
FrameUserConstructor ==
    Frame(FrameIdBytes["TXXX"], << 3 >> \o InheritedNames["constructor"] \o << 0, 118, 0 >>)
FrameUserProto ==
    Frame(FrameIdBytes["TXXX"], << 3 >> \o InheritedNames["__proto__"] \o << 0, 118, 0 >>)

\* TXXX frames whose descriptions name an element, the length and a member
\* of an array: '0', 'length' and 'push', each with the value 'w'
FrameUserIndex == Frame(FrameIdBytes["TXXX"], << 3, 48, 0, 119, 0 >>)
FrameUserLength ==
    Frame(FrameIdBytes["TXXX"], << 3, 108, 101, 110, 103, 116, 104, 0, 119, 0 >>)
FrameUserPush == Frame(FrameIdBytes["TXXX"], << 3, 112, 117, 115, 104, 0, 119, 0 >>)

InheritedFrames ==
    { << FrameUserConstructor >>, << FrameUserProto >>,
      << FrameUserConstructor, FrameUserConstructor >>, << FrameUserAX, FrameUserProto >>,
      << FrameUserProto, FrameUserProto >>, << FrameUserProto, FrameUserIndex >>,
      << FrameUserProto, FrameUserLength >>, << FrameUserProto, FrameUserPush >>,
      << FrameUserProto, FrameUserConstructor >> }

FrameLists ==
    FrameListsUpTo(MaxFrames) \cup { << f >> : f \in SeparatorFrames \cup NullFrames }
    \cup RepeatedFrames \cup InheritedFrames

\* the version bytes of the tags that hold them
FramedVersions == { 3, 4 }

\* the bytes of the frame bodies handed to the readers: NUL, the UTF-16
\* encoding byte, 'A'
BodyBytes == { 0, 1, 65 }

RECURSIVE BodiesUpTo(_)
BodiesUpTo(n) ==
    IF n = 0 THEN { << >> }
    ELSE BodiesUpTo(n - 1) \cup
         { Append(b, c) : b \in { x \in BodiesUpTo(n - 1) : Len(x) = n - 1 }, c \in BodyBytes }

CommentBodies == BodiesUpTo(MaxBody)

CommentReaders == { "comment", "unsynchronisedLyrics" }

\* a ten byte frame header TALB whose size field is 00 00 01 00 (256 read as
\* a plain integer, 128 read as a synchronization-safe one) with the given
\* second flag byte, followed by present bytes
SizedField == << 0, 0, 1, 0 >>

SizedFrame(flag, present) ==
    FrameIdBytes["TALB"] \o SizedField \o << 0, flag >> \o [i \in 1..present |-> 1]

\* the flag byte without and with bit 1 (unsynchronized)
SizedFlags == { 0, 2 }

SizedPresent == { decodeSize(SizedField), IntOf(ReadUIntBE(SizedField)) }

SizedVersions == { "ID3v2.3", "ID3v2.4" }

\* frames of another program whose body holds the byte pair FF 00: a text
\* frame, a comment, lyrics, a user defined frame, a popularimeter, a picture
\* and a chapter
MarkedFrames ==
    { Frame(FrameIdBytes["TIT2"], << 0, 255, 0, 65 >>),
      Frame(FrameIdBytes["COMM"], << 0, 101, 110, 103, 255, 0, 65, 0, 66 >>),
      Frame(FrameIdBytes["USLT"], << 0, 101, 110, 103, 255, 0, 65, 0, 66 >>),
      Frame(FrameIdBytes["TXXX"], << 0, 255, 0, 65 >>),
      Frame(FrameIdBytes["POPM"], << 65, 0, 255, 0, 0, 0, 1 >>),
      Frame(FrameIdBytes["APIC"], << 0 >> \o ImagePng \o << 0, 3, 0, 255, 0, 216 >>),
      Frame(FrameIdBytes["CHAP"], << 99, 0, 0, 0, 255, 0, 0, 0, 0, 1, 0, 0, 0, 2, 0, 0, 0, 3 >>) }

\* the bytes of a frame whose second flag byte has bit 1 set
MarkedBytes(f) == f.name \o UInt32BE(Len(f.body)) \o << 0, 2 >> \o f.body

\* the buffers handed to write(tags, buffer): no bytes, audio, and audio
\* after a byte that is not part of it
WriteBufferData == Audios \cup { NoBuffer, Prefix(1) \o AudioShort }

\* no call with a callback is under way
NoCalls == << >>

\* the two calls of update on one path
Callers == { 1, 2 }

\* the bytes fs.readFile asks for in one read request of a file whose size
\* fstat gave as 0, and of a file of known size (node, lib/internal/fs)
kReadFileUnknownBufferLength == 65536
kReadFileBufferLength == 524288

\* a call that was issued.  size, pos and data belong to the fs.readFile
\* under way: the size fstat gave, the bytes read and their number; read is
\* what the read of update gave its callback; wrote says that the call was
\* the last to write to the file, last that its fn was the last one called
IssuedCall(tags) ==
    [tags |-> tags, at |-> "read", size |-> 0, pos |-> 0, data |-> << >>,
     read |-> << >>, completeTag |-> << >>, rewriteFile |-> << >>, err |-> "pending",
     wrote |-> FALSE, last |-> FALSE]

AsyncComment == << Field("comment", [language |-> << >>, shortText |-> << >>, text |-> << 65 >>]) >>
AsyncLyrics == << Field("USLT", [language |-> << >>, shortText |-> << >>, text |-> << 66 >>]) >>
AsyncRating ==
    << Field("popularimeter", [email |-> << 65 >>, rating |-> JsNumber(255),
                               counter |-> JsCount(0, 258)]) >>

\* a removeTags call that was issued: it has no fields
IssuedRemoval == [IssuedCall(<< >>) EXCEPT !.at = "remove"]

\* the fields of the calls; the last ones make create raise
AsyncTags == { AsyncComment, AsyncLyrics, AsyncRating, RaisingTags }

\* the files the calls update: an empty file, audio, a tag of one comment
AsyncFiles ==
    { NoFile, AudioShort,
      create(<< Field("comment", [language |-> << >>, shortText |-> << >>,
                                  text |-> << 66 >>]) >>) }

\* the files the calls remove the tag of
RemoveFiles == AsyncFiles \cup { TagHighBit }

(***************************************************************************)
(* The state machine: a caller of the library.  From idle it calls one API  *)
(* function; after create or after loading foreign bytes it reads the       *)
(* buffer back; Return ends the call.  copyRangeChecked is fixed by the     *)
(* runtime the program runs on.                                             *)
(***************************************************************************)
\* no argument, no result
Nothing == [nothing |-> TRUE]

Init ==
    /\ pc = "idle"
    /\ op = "none"
    /\ arg = Nothing
    /\ buffer = NoBuffer
    /\ result = Nothing
    /\ copyRangeChecked \in BOOLEAN
    /\ file = NoFile
    /\ calls = NoCalls

\* encodeSize(n) followed by decodeSize of its bytes
SizeCodec ==
    /\ pc = "idle"
    /\ \E n \in SizeInputs :
        /\ arg' = [totalSize |-> n]
        /\ buffer' = encodeSize(n)
        /\ result' = [size |-> decodeSize(encodeSize(n))]
    /\ op' = "encodeSize"
    /\ pc' = "done"
    /\ UNCHANGED <<copyRangeChecked, file, calls>>

\* buffer = create(tags)
Create ==
    /\ pc = "idle"
    /\ \E tags \in TagInputs :
        /\ arg' = [tags |-> tags]
        /\ buffer' = create(tags)
    /\ op' = "create"
    /\ pc' = "ready"
    /\ UNCHANGED <<result, copyRangeChecked, file, calls>>

\* the caller holds bytes that did not come from create
Load ==
    /\ pc = "idle"
    /\ \E buf \in ForeignBuffers :
        buffer' = buf
    /\ op' = "load"
    /\ pc' = "ready"
    /\ UNCHANGED <<arg, result, copyRangeChecked, file, calls>>

\* the caller holds a well-formed v2.3 or v2.4 tag with the given frames
LoadFrames ==
    /\ pc = "idle"
    /\ \E fs \in FrameLists, v \in FramedVersions :
        /\ arg' = [frames |-> fs, version |-> v]
        /\ buffer' = TagBytes(v, encodeSize(Len(FramesBytes(fs))), FramesBytes(fs))
    /\ op' = "loadFrames"
    /\ pc' = "ready"
    /\ UNCHANGED <<result, copyRangeChecked, file, calls>>

\* the caller holds a v2.3 or v2.4 tag with one frame marked unsynchronized
LoadMarked ==
    /\ pc = "idle"
    /\ \E f \in MarkedFrames, v \in FramedVersions :
        /\ arg' = [frames |-> << f >>, version |-> v]
        /\ buffer' = TagBytes(v, encodeSize(Len(MarkedBytes(f))), MarkedBytes(f))
    /\ op' = "loadMarked"
    /\ pc' = "ready"
    /\ UNCHANGED <<result, copyRangeChecked, file, calls>>

\* getFramesFromID3Body of a frame body
Split ==
    /\ pc = "idle"
    /\ \E fs \in PrecedingFrames, t \in Tails, version \in SplitVersions :
        /\ arg' = [frames |-> fs, tail |-> t, version |-> version]
        /\ buffer' = FramesBytes(fs) \o TailBytes(t)
        /\ result' = getFramesFromID3Body(FramesBytes(fs) \o TailBytes(t), version)
    /\ op' = "split"
    /\ pc' = "done"
    /\ UNCHANGED <<copyRangeChecked, file, calls>>

\* getFramesFromID3Body of one frame whose size field reads differently as a
\* plain and as a synchronization-safe integer
SplitSized ==
    /\ pc = "idle"
    /\ \E flag \in SizedFlags, present \in SizedPresent, version \in SizedVersions :
        /\ arg' = [flag |-> flag, present |-> present, version |-> version]
        /\ buffer' = SizedFrame(flag, present)
        /\ result' = getFramesFromID3Body(SizedFrame(flag, present), version)
    /\ op' = "splitSized"
    /\ pc' = "done"
    /\ UNCHANGED <<copyRangeChecked, file, calls>>

\* SpecialFrames[key].read(frame) of a COMM or USLT frame body
\* createPopularimeterFrame(popularimeter) and create({popularimeter}): a
\* RangeError inside createPopularimeterFrame leaves create as well
CreatePopularimeter ==
    /\ pc = "idle"
    /\ \E p \in PopularimeterObjects :
        /\ arg' = [popularimeter |-> p]
        /\ \E frame \in { createPopularimeterFrame(p) },
              tag \in { create(<< Field("popularimeter", p) >>) } :
              result' = [frame |-> frame,
                         tag |-> IF tag = RangeError THEN Raise("RangeError") ELSE Ok(tag)]
    /\ op' = "createPopularimeter"
    /\ pc' = "done"
    /\ UNCHANGED <<buffer, copyRangeChecked, file, calls>>

ReadCommentBody ==
    /\ pc = "idle"
    /\ \E key \in CommentReaders, frame \in CommentBodies :
        /\ arg' = [key |-> key]
        /\ buffer' = frame
        /\ result' = [frame |-> readSpecial(key, [body |-> frame, unsynchronized |-> FALSE,
                                                   dataLengthIndicator |-> FALSE])]
    /\ op' = "readComment"
    /\ pc' = "done"
    /\ UNCHANGED <<copyRangeChecked, file, calls>>

\* buffer = write(tags, data) of a Buffer; a RangeError ends the call and
\* the caller has no buffer
WriteBuffer ==
    /\ pc = "idle"
    /\ \E tags \in WriteTags, data \in WriteBufferData :
        \E completeBuffer \in { writeBuffer(tags, data) } :
            IF completeBuffer = RangeError
            THEN /\ arg' = [tags |-> tags, before |-> data, st |-> "RangeError"]
                 /\ buffer' = NoBuffer
                 /\ pc' = "done"
            ELSE /\ arg' = [tags |-> tags, before |-> data, st |-> "ok"]
                 /\ buffer' = completeBuffer
                 /\ pc' = "ready"
    /\ op' = "writeBuffer"
    /\ UNCHANGED <<result, copyRangeChecked, file, calls>>

\* removeTagsFromBuffer of the buffer
RemoveTags ==
    /\ pc = "ready"
    /\ op \in { "load", "writeBuffer" }
    /\ result' = [removed |-> removeTagsFromBuffer(buffer)]
    /\ pc' = "stripped"
    /\ UNCHANGED <<op, arg, buffer, copyRangeChecked, file, calls>>

\* getFramePosition, getTagVersion and getTagsFromBuffer of the buffer
Read ==
    /\ pc = "ready"
    /\ result' = [position |-> getFramePosition(buffer),
                  version |-> getTagVersion(buffer),
                  tags |-> getTagsFromBuffer(buffer)]
    /\ pc' = "done"
    /\ UNCHANGED <<op, arg, buffer, copyRangeChecked, file, calls>>

\* the call has returned: the caller drops the values
Return ==
    /\ pc \in { "done", "stripped" }
    /\ pc' = "idle"
    /\ op' = "none"
    /\ arg' = Nothing
    /\ buffer' = NoBuffer
    /\ result' = Nothing
    /\ calls' = NoCalls
    /\ UNCHANGED <<copyRangeChecked, file>>

\* update(tags, buffer) without a callback
Update ==
    /\ pc = "idle"
    /\ \E tags \in UpdateTags, filebuffer \in UpdateBases :
        \E updated \in { update(tags, filebuffer) } :
            /\ arg' = [tags |-> tags, before |-> filebuffer, st |-> updated.st]
            /\ buffer' = updated.buffer
    /\ op' = "update"
    /\ pc' = "ready"
    /\ UNCHANGED <<result, copyRangeChecked, file, calls>>

\* write(tags, path) without a callback; a RangeError leaves the file as it
\* was
Write ==
    /\ pc = "idle"
    /\ \E tags \in WriteTags :
        \E written \in { writeFile(tags, file) } :
            IF written = RangeError
            THEN /\ arg' = [tags |-> tags, before |-> file, st |-> "RangeError"]
                 /\ file' = file
            ELSE /\ arg' = [tags |-> tags, before |-> file, st |-> "ok"]
                 /\ file' = written
    /\ op' = "write"
    /\ pc' = "written"
    /\ UNCHANGED <<buffer, result, copyRangeChecked, calls>>

\* read(path) without a callback: fs.readFileSync, then getTagsFromBuffer
ReadFile ==
    /\ pc = "written"
    /\ buffer' = file
    /\ result' = [position |-> getFramePosition(file),
                  version |-> getTagVersion(file),
                  tags |-> getTagsFromBuffer(file)]
    /\ pc' = "done"
    /\ UNCHANGED <<op, arg, copyRangeChecked, file, calls>>

\* removeTags(path) without a callback
RemoveTagsFile ==
    /\ pc = "idle"
    /\ \E removed \in { removeTags(file) } :
        /\ arg' = [before |-> file, st |-> removed.st]
        /\ file' = removed.file
    /\ op' = "removeTags"
    /\ pc' = "written"
    /\ UNCHANGED <<buffer, result, copyRangeChecked, calls>>

\* update(tags, path, fn) of both callers, one after the other in one turn
\* of the event loop: each call ends with fs.readFile under way.  The calls
\* are issued on one of the files of AsyncFiles
UpdateAsync ==
    /\ pc = "idle"
    /\ calls = NoCalls
    /\ file \in AsyncFiles
    /\ \E t1 \in AsyncTags, t2 \in AsyncTags :
        calls' = << IssuedCall(t1), IssuedCall(t2) >>
    /\ arg' = [before |-> file]
    /\ op' = "updateAsync"
    /\ pc' = "pending"
    /\ UNCHANGED <<buffer, result, copyRangeChecked, file>>

\* fs.readFile is a chain of requests with the event loop between them:
\* open and fstat, which takes the size of the file, then read requests, then
\* close, after which the callback gets the bytes.  ReadFileStat is the call
\* after fstat: the size is the length of the file now, nothing is read yet
ReadFileStat(call, bytes, next) ==
    [call EXCEPT !.at = next, !.size = Len(bytes), !.pos = 0, !.data = << >>]

\* one read request at the position of the descriptor: with a known size it
\* asks for the bytes that are left of it, with size 0 for a block of
\* kReadFileUnknownBufferLength bytes; it gets what the file holds there now
ReadFileChunk(call, bytes) ==
    LET length == IF call.size = 0 THEN kReadFileUnknownBufferLength
                  ELSE IF call.size - call.pos < kReadFileBufferLength
                  THEN call.size - call.pos
                  ELSE kReadFileBufferLength
        end == IF call.pos + length < Len(bytes) THEN call.pos + length ELSE Len(bytes)
    IN  IF call.pos >= Len(bytes) THEN << >> ELSE SubSeq(bytes, call.pos + 1, end)

\* the call after a read request that got chunk: the reading ends (next, the
\* close) when the size is reached or no byte came, else it goes on
ReadFileAfterRead(call, chunk, next) ==
    [call EXCEPT !.pos = call.pos + Len(chunk),
                 !.data = call.data \o chunk,
                 !.at = IF call.pos + Len(chunk) = call.size \/ chunk = << >>
                        THEN next ELSE call.at]

\* fs.readFile of read (index.ts 1238): open and fstat
UpdateStat(i) ==
    /\ pc = "pending"
    /\ calls[i].at = "read"
    /\ calls' = [calls EXCEPT ![i] = ReadFileStat(calls[i], file, "readData")]
    /\ UNCHANGED <<pc, op, arg, buffer, result, copyRangeChecked, file>>

\* fs.readFile of read: a read request
UpdateChunk(i) ==
    /\ pc = "pending"
    /\ calls[i].at = "readData"
    /\ calls' = [calls EXCEPT
                   ![i] = ReadFileAfterRead(calls[i], ReadFileChunk(calls[i], file), "readClose")]
    /\ UNCHANGED <<pc, op, arg, buffer, result, copyRangeChecked, file>>

\* fs.readFile of read is closed and hands over the bytes it read: the
\* callback of update merges the tags and calls write, which makes
\* completeTag and starts its fs.readFile; an error that getTagsFromBuffer or
\* create raises leaves the callback and fn is never called
UpdateRead(i) ==
    /\ pc = "pending"
    /\ calls[i].at = "readClose"
    /\ \E current \in { currentTagsOf(calls[i].tags, calls[i].data) } :
        IF current.st # "ok"
        THEN calls' = [calls EXCEPT ![i].at = "thrown", ![i].read = calls[i].data,
                                    ![i].err = current.st]
        ELSE \E completeTag \in { create(current.tags) } :
                IF completeTag = RangeError
                THEN calls' = [calls EXCEPT ![i].at = "thrown", ![i].read = calls[i].data,
                                            ![i].err = "RangeError"]
                ELSE calls' = [calls EXCEPT ![i].at = "writeRead", ![i].read = calls[i].data,
                                            ![i].completeTag = completeTag]
    /\ UNCHANGED <<pc, op, arg, buffer, result, copyRangeChecked, file>>

\* fs.readFile of write (index.ts 1094): open and fstat
WriteStat(i) ==
    /\ pc = "pending"
    /\ calls[i].at = "writeRead"
    /\ calls' = [calls EXCEPT ![i] = ReadFileStat(calls[i], file, "writeReadData")]
    /\ UNCHANGED <<pc, op, arg, buffer, result, copyRangeChecked, file>>

\* fs.readFile of write: a read request
WriteChunk(i) ==
    /\ pc = "pending"
    /\ calls[i].at = "writeReadData"
    /\ calls' = [calls EXCEPT
                   ![i] = ReadFileAfterRead(calls[i], ReadFileChunk(calls[i], file),
                                            "writeReadClose")]
    /\ UNCHANGED <<pc, op, arg, buffer, result, copyRangeChecked, file>>

\* fs.readFile of write is closed and hands over the bytes it read: its
\* callback makes rewriteFile and starts fs.writeFile
WriteRead(i) ==
    /\ pc = "pending"
    /\ calls[i].at = "writeReadClose"
    /\ calls' = [calls EXCEPT ![i].at = "open",
                              ![i].rewriteFile =
                                  rewriteFileOf(calls[i].completeTag, calls[i].data)]
    /\ UNCHANGED <<pc, op, arg, buffer, result, copyRangeChecked, file>>

\* fs.writeFile (index.ts 1101) opens the file with flag 'w': the file is
\* truncated
WriteOpen(i) ==
    /\ pc = "pending"
    /\ calls[i].at = "open"
    /\ file' = NoFile
    /\ calls' = [calls EXCEPT ![i].at = "data"]
    /\ UNCHANGED <<pc, op, arg, buffer, result, copyRangeChecked>>

\* fs.writeFile writes rewriteFile at the start of the file, the position of
\* its descriptor: what the file holds behind these bytes by now stays
WriteData(i) ==
    /\ pc = "pending"
    /\ calls[i].at = "data"
    /\ file' = calls[i].rewriteFile
               \o SubSeq(file, Len(calls[i].rewriteFile) + 1, Len(file))
    /\ calls' = [j \in DOMAIN calls |->
                    IF j = i THEN [calls[j] EXCEPT !.at = "close", !.wrote = TRUE]
                    ELSE [calls[j] EXCEPT !.wrote = FALSE]]
    /\ UNCHANGED <<pc, op, arg, buffer, result, copyRangeChecked>>

\* fs.writeFile has closed the file: error => fn(error) with error null
WriteClose(i) ==
    /\ pc = "pending"
    /\ calls[i].at = "close"
    /\ calls' = [j \in DOMAIN calls |->
                    IF j = i THEN [calls[j] EXCEPT !.at = "done", !.err = "null", !.last = TRUE]
                    ELSE [calls[j] EXCEPT !.last = FALSE]]
    /\ UNCHANGED <<pc, op, arg, buffer, result, copyRangeChecked, file>>

\* removeTags(path, fn) of both callers, one after the other in one turn of
\* the event loop (index.ts 1545): each call ends with fs.readFile under
\* way.  The calls are issued on one of the files of RemoveFiles
RemoveAsync ==
    /\ pc = "idle"
    /\ calls = NoCalls
    /\ file \in RemoveFiles
    /\ calls' = << IssuedRemoval, IssuedRemoval >>
    /\ arg' = [before |-> file]
    /\ op' = "removeAsync"
    /\ pc' = "pending"
    /\ UNCHANGED <<buffer, result, copyRangeChecked, file>>

\* fs.readFile of removeTags (index.ts 1545): open and fstat
RemoveStat(i) ==
    /\ pc = "pending"
    /\ calls[i].at = "remove"
    /\ calls' = [calls EXCEPT ![i] = ReadFileStat(calls[i], file, "removeData")]
    /\ UNCHANGED <<pc, op, arg, buffer, result, copyRangeChecked, file>>

\* fs.readFile of removeTags: a read request
RemoveChunk(i) ==
    /\ pc = "pending"
    /\ calls[i].at = "removeData"
    /\ calls' = [calls EXCEPT
                   ![i] = ReadFileAfterRead(calls[i], ReadFileChunk(calls[i], file),
                                            "removeClose")]
    /\ UNCHANGED <<pc, op, arg, buffer, result, copyRangeChecked, file>>

\* fs.readFile of removeTags is closed and hands over the bytes it read
\* with err null: the callback (index.ts 1546-1556) calls fn(err) when
\* removeTagsFromBuffer gives false, else it starts fs.writeFile of newData
RemoveRead(i) ==
    /\ pc = "pending"
    /\ calls[i].at = "removeClose"
    /\ \E newData \in { removeTagsFromBuffer(calls[i].data) } :
        IF newData = FalseBuffer
        THEN calls' = [j \in DOMAIN calls |->
                          IF j = i THEN [calls[j] EXCEPT !.at = "done", !.read = calls[i].data,
                                                         !.err = "null", !.last = TRUE]
                          ELSE [calls[j] EXCEPT !.last = FALSE]]
        ELSE calls' = [calls EXCEPT ![i].at = "removeOpen", ![i].read = calls[i].data,
                                    ![i].rewriteFile = newData]
    /\ UNCHANGED <<pc, op, arg, buffer, result, copyRangeChecked, file>>

\* fs.writeFile of removeTags (index.ts 1556) opens the file with flag 'w':
\* the file is truncated
RemoveOpen(i) ==
    /\ pc = "pending"
    /\ calls[i].at = "removeOpen"
    /\ file' = NoFile
    /\ calls' = [calls EXCEPT ![i].at = "removeWrite"]
    /\ UNCHANGED <<pc, op, arg, buffer, result, copyRangeChecked>>

\* fs.writeFile of removeTags writes newData at the start of the file: what
\* the file holds behind these bytes by now stays
RemoveData(i) ==
    /\ pc = "pending"
    /\ calls[i].at = "removeWrite"
    /\ file' = calls[i].rewriteFile
               \o SubSeq(file, Len(calls[i].rewriteFile) + 1, Len(file))
    /\ calls' = [j \in DOMAIN calls |->
                    IF j = i THEN [calls[j] EXCEPT !.at = "removeEnd", !.wrote = TRUE]
                    ELSE [calls[j] EXCEPT !.wrote = FALSE]]
    /\ UNCHANGED <<pc, op, arg, buffer, result, copyRangeChecked>>

\* fs.writeFile of removeTags has closed the file: fn(false)
RemoveClose(i) ==
    /\ pc = "pending"
    /\ calls[i].at = "removeEnd"
    /\ calls' = [j \in DOMAIN calls |->
                    IF j = i THEN [calls[j] EXCEPT !.at = "done", !.err = "false", !.last = TRUE]
                    ELSE [calls[j] EXCEPT !.last = FALSE]]
    /\ UNCHANGED <<pc, op, arg, buffer, result, copyRangeChecked, file>>

\* both calls have ended: the caller reads the file
ReadUpdated ==
    /\ pc = "pending"
    /\ \A i \in Callers : calls[i].at \in { "done", "thrown" }
    /\ buffer' = file
    /\ result' = [position |-> getFramePosition(file),
                  version |-> getTagVersion(file),
                  tags |-> getTagsFromBuffer(file)]
    /\ pc' = "done"
    /\ UNCHANGED <<op, arg, copyRangeChecked, file, calls>>

Next ==
    \/ SizeCodec
    \/ Create
    \/ Load
    \/ LoadFrames
    \/ LoadMarked
    \/ Split
    \/ SplitSized
    \/ ReadCommentBody
    \/ CreatePopularimeter
    \/ Update
    \/ WriteBuffer
    \/ Read
    \/ RemoveTags
    \/ Return

Spec == Init /\ [][Next]_vars

\* a caller that writes tags to one file or removes its tag, again and again,
\* and reads it back
FileInit ==
    /\ pc = "idle"
    /\ op = "none"
    /\ arg = Nothing
    /\ buffer = NoBuffer
    /\ result = Nothing
    /\ copyRangeChecked \in BOOLEAN
    /\ file \in InitialFiles \cup { TagHighBit }
    /\ calls = NoCalls

FileNext ==
    \/ Write
    \/ RemoveTagsFile
    \/ ReadFile
    \/ Return

FileSpec == FileInit /\ [][FileNext]_vars

\* two callers that update one file, or remove its tag, with callbacks and
\* no serialization
AsyncInit ==
    /\ pc = "idle"
    /\ op = "none"
    /\ arg = Nothing
    /\ buffer = NoBuffer
    /\ result = Nothing
    /\ copyRangeChecked \in BOOLEAN
    /\ file \in RemoveFiles
    /\ calls = NoCalls

AsyncNext ==
    \/ UpdateAsync
    \/ RemoveAsync
    \/ \E i \in Callers : RemoveStat(i)
    \/ \E i \in Callers : RemoveChunk(i)
    \/ \E i \in Callers : RemoveRead(i)
    \/ \E i \in Callers : RemoveOpen(i)
    \/ \E i \in Callers : RemoveData(i)
    \/ \E i \in Callers : RemoveClose(i)
    \/ \E i \in Callers : UpdateStat(i)
    \/ \E i \in Callers : UpdateChunk(i)
    \/ \E i \in Callers : UpdateRead(i)
    \/ \E i \in Callers : WriteStat(i)
    \/ \E i \in Callers : WriteChunk(i)
    \/ \E i \in Callers : WriteRead(i)
    \/ \E i \in Callers : WriteOpen(i)
    \/ \E i \in Callers : WriteData(i)
    \/ \E i \in Callers : WriteClose(i)
    \/ ReadUpdated
    \/ Return

AsyncSpec == AsyncInit /\ [][AsyncNext]_vars

(***************************************************************************)
(* Claims.                                                                  *)
(***************************************************************************)

\* C1: for every n in 0..2^28-1, decodeSize(encodeSize(n)) = n, and each of
\* the four bytes of encodeSize(n) is in 0..127, most significant 7-bit
\* group first.
SizeCodecInverse ==
    op = "encodeSize" =>
        /\ result.size = arg.totalSize
        /\ Len(buffer) = 4
        /\ \A i \in 1..4 : buffer[i] \in 0..127
        /\ buffer[1] = arg.totalSize \div 2097152
        /\ buffer[4] = arg.totalSize % 128

\* C1 witness: a size whose four groups are all non-zero has been encoded
SizeCodecWitness ==
    /\ op = "encodeSize"
    /\ arg.totalSize = 268435455
    /\ buffer = <<127, 127, 127, 127>>

\* what a read returned: the failure indicator, or a mapping with a raw view
IsFalse(r) == r.st = "ok" /\ r.val.t = "false"
IsMapping(r) == r.st = "ok" /\ r.val.t = "tags"

\* the fields handed to create are all keyed by aliases of text frames
AliasTextTags(tags) == \A i \in 1..Len(tags) : tags[i].key \in DOMAIN ID3v24Frames

IdOf(alias) == FrameIdBytes[ID3v24Frames[alias].key]

\* a string that is not empty, holds no NUL and no '#BREAK_HERE#', and does
\* not start with a byte order mark
\* every surrogate of str is one half of a pair
WellFormed(str) ==
    \A i \in 1..Len(str) :
        /\ IsHighSurrogate(str[i]) => i < Len(str) /\ IsLowSurrogate(str[i + 1])
        /\ IsLowSurrogate(str[i]) => i > 1 /\ IsHighSurrogate(str[i - 1])

PlainString(str) ==
    /\ str # << >>
    /\ \A i \in 1..Len(str) : str[i] # 0
    /\ str[1] # 65279
    /\ IndexOf(str, multiValueSplitter) = -1
    /\ WellFormed(str)

\* the read exposes exactly the fields of tags, each with the value supplied
ExposesExactly(tags, r) ==
    /\ IsMapping(r)
    /\ DOMAIN r.val.al = { tags[i].key : i \in 1..Len(tags) }
    /\ DOMAIN r.val.raw = { IdOf(tags[i].key) : i \in 1..Len(tags) }
    /\ \A i \in 1..Len(tags) :
        /\ r.val.al[tags[i].key] = tags[i].value
        /\ r.val.raw[IdOf(tags[i].key)] = tags[i].value

\* C2 (as amended): for any mapping from text-field aliases to strings that
\* are not empty, hold no NUL character and no '#BREAK_HERE#' and do not start
\* with a byte order mark, getTagsFromBuffer(create(fields)) exposes every
\* supplied field, under its alias and under its frame identifier in raw,
\* with exactly the value supplied, and exposes no other field.
TextRoundTrip ==
    (/\ pc = "done"
     /\ op = "create"
     /\ AliasTextTags(arg.tags)
     /\ \A i \in 1..Len(arg.tags) : ~arg.tags[i].value.arr /\ PlainString(arg.tags[i].value.v[1]))
    => ExposesExactly(arg.tags, result.tags)

\* C2 witness: a title with a character outside ASCII has been written and
\* read back
TextRoundTripWitness ==
    /\ pc = "done"
    /\ op = "create"
    /\ Len(arg.tags) = 1
    /\ arg.tags[1].key = "title"
    /\ arg.tags[1].value = Str(<< 65, 233 >>)
    /\ IsMapping(result.tags)
    /\ result.tags.val.al["title"] = Str(<< 65, 233 >>)
    /\ result.tags.val.raw[FrameIdBytes["TIT2"]] = Str(<< 65, 233 >>)

\* C2 as the specification states it: for any mapping from text-field aliases
\* to string values the read exposes every supplied field with exactly the
\* value supplied.
TextRoundTripAnyString ==
    (/\ pc = "done"
     /\ op = "create"
     /\ AliasTextTags(arg.tags)
     /\ \A i \in 1..Len(arg.tags) : ~arg.tags[i].value.arr)
    => ExposesExactly(arg.tags, result.tags)

\* what an array of strings is read back as
ReadBackOf(v) == IF Len(v) = 1 THEN Str(v[1]) ELSE Arr(v)

ArrayReadBack(field, r) ==
    /\ IsMapping(r)
    /\ field.key \in DOMAIN r.val.al
    /\ IdOf(field.key) \in DOMAIN r.val.raw
    /\ r.val.al[field.key] = ReadBackOf(field.value.v)
    /\ r.val.raw[IdOf(field.key)] = ReadBackOf(field.value.v)

\* {title: "Song", artist: ["A", "B"]}
Scenario == << Field("title", Str(Song)), Field("artist", Arr(<< << 65 >>, << 66 >> >>)) >>

\* C3 (as amended): a sequence of two or more strings, none of them empty,
\* none holding a NUL character or '#BREAK_HERE#', the first not starting with
\* a byte order mark, is read back from its text frame as the same sequence
\* (same length, same order, not joined); a sequence of one such string is
\* read back as the bare string; create({title: "Song", artist: ["A", "B"]})
\* read back gives raw.TIT2 = "Song" and raw.TPE1 = ["A", "B"].
ArrayRoundTrip ==
    (pc = "done" /\ op = "create" /\ AliasTextTags(arg.tags))
    => /\ \A i \in 1..Len(arg.tags) :
            (/\ arg.tags[i].value.arr
             /\ Len(arg.tags[i].value.v) >= 1
             /\ \A j \in 1..Len(arg.tags[i].value.v) : PlainString(arg.tags[i].value.v[j]))
            => ArrayReadBack(arg.tags[i], result.tags)
       /\ arg.tags = Scenario
            => /\ IsMapping(result.tags)
               /\ result.tags.val.raw[FrameIdBytes["TIT2"]] = Str(Song)
               /\ result.tags.val.raw[FrameIdBytes["TPE1"]] = Arr(<< << 65 >>, << 66 >> >>)

\* C3 witness: the scenario has been written and read back
ArrayRoundTripWitness ==
    /\ pc = "done"
    /\ op = "create"
    /\ AliasTextTags(arg.tags)
    /\ arg.tags = Scenario
    /\ IsMapping(result.tags)
    /\ result.tags.val.raw[FrameIdBytes["TPE1"]] = Arr(<< << 65 >>, << 66 >> >>)

\* C3 as the specification states it: every sequence of two or more strings
\* is read back as the same sequence, and every sequence of one string as the
\* bare string.
ArrayRoundTripAnyStrings ==
    (pc = "done" /\ op = "create" /\ AliasTextTags(arg.tags))
    => \A i \in 1..Len(arg.tags) :
            (arg.tags[i].value.arr /\ Len(arg.tags[i].value.v) >= 1)
            => ArrayReadBack(arg.tags[i], result.tags)

\* C4: for a chapter with valid elementID, startTimeMs and endTimeMs, an
\* offset that was not supplied is read back absent, and an offset that was
\* supplied, 0 included, is read back with the same value.
ChapterOffsetsRoundTrip ==
    (/\ pc = "done"
     /\ op = "create"
     /\ Len(arg.tags) = 1
     /\ arg.tags[1].key = "chapter"
     /\ ~arg.tags[1].value.multiple
     /\ ValidChapter(arg.tags[1].value.list[1]))
    => /\ IsMapping(result.tags)
       /\ "chapter" \in DOMAIN result.tags.val.al
       /\ result.tags.val.al["chapter"].startOffsetBytes
              = arg.tags[1].value.list[1].startOffsetBytes
       /\ result.tags.val.al["chapter"].endOffsetBytes
              = arg.tags[1].value.list[1].endOffsetBytes

\* the fields of tags, each under the frame identifier of its alias
RawIdOf(key) == IF key \in DOMAIN ID3v24Frames THEN ID3v24Frames[key].key ELSE SpecialFrames[key]

ByRawId(tags) == [i \in 1..Len(tags) |-> Field(RawIdOf(tags[i].key), tags[i].value)]

\* C5: create returns the same bytes for a field under its alias and for
\* the field under its raw frame identifier, for text frames and for special
\* frames.
AliasOrRawIdSameBytes ==
    (/\ pc = "ready"
     /\ op = "create"
     /\ \A i \in 1..Len(arg.tags) : arg.tags[i].key \in DOMAIN ID3v24Frames \cup DOMAIN SpecialFrames)
    => buffer = create(ByRawId(arg.tags))

\* C6: the buffer create returns starts with 'I','D','3',4,0,0, its bytes
\* 6..9 are a synchronization-safe size, and decodeSize of them is the length
\* of the buffer minus 10.
CreateHeader ==
    (pc = "ready" /\ op = "create")
    => /\ Len(buffer) >= 10
       /\ SubSeq(buffer, 1, 6) = << 73, 68, 51, 4, 0, 0 >>
       /\ \A i \in 7..10 : buffer[i] \in 0..127
       /\ decodeSize(SubSeq(buffer, 7, 10)) = Len(buffer) - 10

\* C6 witness: create has returned a tag of more than 127 bytes of frames
CreateHeaderWitness ==
    /\ pc = "ready"
    /\ op = "create"
    /\ Len(buffer) - 10 > 127
    /\ buffer[9] = 1
    /\ buffer[10] = (Len(buffer) - 10) % 128

\* C7: a tag is recognized only if its signature starts within the first 20
\* bytes (offsets 0..19): for every buffer whose first 'ID3' starts at offset
\* 20 or later, or that holds no 'ID3', getFramePosition returns -1 and
\* getTagsFromBuffer returns false.
SignatureAfter19Ignored ==
    (/\ pc = "done"
     /\ op = "load"
     /\ (IndexOf(buffer, ID3) = -1 \/ IndexOf(buffer, ID3) > 19))
    => result.position = -1 /\ IsFalse(result.tags)

\* C8: when one of the four size bytes of the tag header has its high bit
\* set, getTagsFromBuffer returns the failure indicator.
HighBitSizeRejected ==
    (/\ pc = "done"
     /\ op = "load"
     /\ result.position # -1
     /\ \E i \in 6..9 : At(buffer, result.position + i) >= 128)
    => IsFalse(result.tags)

\* C9: for every buffer with a signature in range, a version byte other
\* than 3 and 4 makes getTagVersion return unknown and getTagsFromBuffer
\* return false, and a version byte 3 or 4 makes getTagsFromBuffer return a
\* mapping with a raw view.
VersionByteDecides ==
    (pc = "done" /\ op = "load" /\ result.position # -1)
    => IF At(buffer, result.position + 3) \in { 3, 4 }
       THEN IsMapping(result.tags)
       ELSE result.version = "unknown" /\ IsFalse(result.tags)

\* C10: getFramesFromID3Body never raises; on a buffer of zero bytes it
\* returns no frame; on a buffer with a frame that declares more bytes than
\* remain after its header it returns exactly the frames that precede that
\* frame, in order.  (The frames are laid out as in a v2.3 or v2.4 tag, so
\* the last part is stated for these versions.)
SplitterStopsAtOverrun ==
    (pc = "done" /\ op = "split")
    => /\ result.err = "none"
       /\ (arg.frames = << >> /\ arg.tail.kind = "zeros") => result.frames = << >>
       /\ (/\ arg.version # "ID3v2.2"
           /\ \/ arg.tail.kind = "overrun"
              \/ arg.tail.kind = "cut" /\ arg.tail.present >= 8 /\ arg.tail.declared > 0)
          => result.frames = arg.frames

\* C11: for every byte sequence given as a COMM or USLT frame body,
\* readCommentFrame / readUnsynchronisedLyricsFrame returns (an empty or
\* partial object), and the read of a tag that holds such a frame completes.
CommentReadTerminates ==
    /\ (pc = "done" /\ op = "readComment") => result.frame.st = "ok"
    /\ (pc = "done" /\ op = "load") => result.tags.st # "hang"

\* the entry is a special frame whose required field is absent
RequiredFieldAbsent(f) ==
    LET c == f.value
    IN  CASE f.key \in { "comment", "COMM", "unsynchronisedLyrics", "USLT" } -> c.text = << >>
          [] f.key \in { "popularimeter", "POPM" } -> c.email = << >>
          [] f.key \in { "chapter", "CHAP" } ->
                /\ ~c.multiple
                /\ \/ c.list[1].elementID = << >>
                   \/ c.list[1].startTimeMs = Undefined
                   \/ c.list[1].endTimeMs = Undefined
          [] OTHER -> FALSE

\* the tags object without its i-th key
WithoutKey(tags, i) == SubSeq(tags, 1, i - 1) \o SubSeq(tags, i + 1, Len(tags))

SpecialKeyAlias(key) == IF key \in DOMAIN SpecialFrames THEN key ELSE SpecialAliasOf(key)

\* C12: when a required field of a special frame is absent (popularimeter
\* without email, comment or lyrics without text, chapter without elementID,
\* startTimeMs or endTimeMs), its create function returns null, and
\* create(tags) does not fail and returns the tag it returns for tags
\* without that key.
AbsentFieldSkipsFrame ==
    (pc = "ready" /\ op = "create")
    => \A i \in 1..Len(arg.tags) :
          RequiredFieldAbsent(arg.tags[i])
          => /\ createSpecial(SpecialKeyAlias(arg.tags[i].key), arg.tags[i].value).items
                    = << Null >>
             /\ \A j \in 1..Len(buffer) : buffer[j] \in Byte
             /\ buffer = create(WithoutKey(arg.tags, i))

\* create was called with a title and a comment without text, and returned
\* a tag that holds the title frame
AbsentFieldSkipsFrameWitness ==
    /\ pc = "ready" /\ op = "create"
    /\ Len(arg.tags) = 2
    /\ arg.tags[1].key = "title"
    /\ arg.tags[2].key = "comment" /\ RequiredFieldAbsent(arg.tags[2])
    /\ Len(buffer) > 10

\* the rating byte and the counter the claim expects for an input
ExpectedRating(r) == IF ~r.nan /\ r.n >= 0 /\ r.n <= 255 THEN r.n ELSE 0
ExpectedCounter(c) == IF ~c.nan /\ ~c.neg THEN c.num ELSE Num(0, 0)

\* C13: createPopularimeterFrame with an email encodes a rating below 0,
\* above 255 or non-numeric as the byte 0 and a rating in 0..255 as itself,
\* a counter below 0 or non-numeric as the four bytes of 0 and a counter in
\* 0..2^32-1 as its four big-endian bytes; readPopularimeterFrame of the
\* frame body returns those values, and so does the read of the created tag.
\* (The email is a string without the NUL character that ends the field.)
PopularimeterClamped ==
    (/\ op = "create"
     /\ Len(arg.tags) = 1
     /\ arg.tags[1].key \in { "popularimeter", "POPM" }
     /\ arg.tags[1].value.email # << >>)
    => LET p == arg.tags[1].value
           body == SubSeq(buffer, 21, Len(buffer))
           m == Len(body)
           popm == readPopularimeterFrame(body)
       IN  /\ SubSeq(buffer, 11, 14) = FrameIdBytes["POPM"]
           /\ body[m - 4] = ExpectedRating(p.rating)
           /\ SubSeq(body, m - 3, m) = NumBytes(ExpectedCounter(p.counter))
           /\ popm.st = "ok"
           /\ popm.val.rating = << ExpectedRating(p.rating) >>
           /\ popm.val.counter = << ExpectedCounter(p.counter) >>
           /\ pc = "done" => /\ IsMapping(result.tags)
                             /\ result.tags.val.al["popularimeter"] = popm.val

\* a rating of 256 and a counter of 2^32 - 1 were written and read back
PopularimeterClampedWitness ==
    /\ pc = "done" /\ op = "create"
    /\ Len(arg.tags) = 1
    /\ arg.tags[1].key = "popularimeter"
    /\ arg.tags[1].value.email # << >>
    /\ arg.tags[1].value.rating = JsNumber(256)
    /\ arg.tags[1].value.counter = JsCount(65535, 65535)
    /\ result.tags.val.al["popularimeter"].rating = << 0 >>
    /\ result.tags.val.al["popularimeter"].counter = << Num(65535, 65535) >>

\* the names of the frames of the tag that was loaded
LoadedNames == { arg.frames[i].name : i \in 1..Len(arg.frames) }

\* C14: on read of a v2.4 tag, date takes the value of a legacy frame (here
\* TYER) only when the tag has no TDRC frame: a tag with TYER and without
\* TDRC exposes the TYER value under date, and a tag with both exposes the
\* TDRC value under date, whatever the order of the two frames.
DateFromDirectFrameFirst ==
    (pc = "done" /\ op = "loadFrames" /\ arg.version = 4)
    => /\ IsMapping(result.tags)
       /\ (FrameIdBytes["TDRC"] \in LoadedNames)
          => result.tags.val.al["date"] = DecodeTextBody(FrameDate.body)
       /\ (FrameIdBytes["TDRC"] \notin LoadedNames /\ FrameIdBytes["TYER"] \in LoadedNames)
          => result.tags.val.al["date"] = DecodeTextBody(FrameYear.body)

\* the TXXX frames of the tag that was loaded, each as readUserDefinedFrame
\* decodes it, in frame order
RECURSIVE UserFramesOf(_)
UserFramesOf(frames) ==
    IF frames = << >> THEN << >>
    ELSE (IF Head(frames).name = TXXX
          THEN << readUserDefinedFrame(Head(frames).body).val >> ELSE << >>)
         \o UserFramesOf(Tail(frames))

\* the values of the frames with description d, in frame order
RECURSIVE ValuesUnder(_, _)
ValuesUnder(users, d) ==
    IF users = << >> THEN << >>
    ELSE (IF Head(users).description = d THEN << Head(users).values >> ELSE << >>)
         \o ValuesUnder(Tail(users), d)

RECURSIVE AllValues(_)
AllValues(vals) == IF vals = << >> THEN << >> ELSE Head(vals).v \o AllValues(Tail(vals))

\* one frame keeps its value, several become one array of all their values
MergedEntry(users, d) ==
    LET vals == ValuesUnder(users, d)
    IN  IF Len(vals) = 1 THEN vals[1] ELSE Arr(AllValues(vals))

\* C15: when a tag holds several TXXX frames, userDefined and raw.TXXX have
\* one entry per distinct description; the frames that share a description
\* are merged into one multi-value entry with all their values in frame
\* order, and frames with other descriptions do not change that entry.  (The
\* entries are looked up in plain objects: a description that names a member
\* of Object.prototype finds that member.)
UserDefinedMerged ==
    (pc = "done" /\ op = "loadFrames")
    => LET users == UserFramesOf(arg.frames)
           descriptions == { users[i].description : i \in 1..Len(users) }
           tags == result.tags.val
       IN  /\ IsMapping(result.tags)
           /\ users = << >> => "userDefined" \notin DOMAIN tags.al /\ TXXX \notin DOMAIN tags.raw
           /\ users # << >>
              => /\ DOMAIN tags.al["userDefined"].props = descriptions
                 /\ \A d \in descriptions :
                       tags.al["userDefined"].props[d] = MergedEntry(users, d)
                 /\ tags.raw[TXXX] = tags.al["userDefined"]

\* C16: for every image buffer b (not unsynchronized), readPictureFrame of
\* the body of createPictureFrame(b) returns mime jpeg when b begins
\* FF D8 FF and png otherwise, picture type 3 (front cover) and an
\* imageBuffer with the bytes of b; the read of the created tag returns
\* the same picture.
PictureRoundTrip ==
    (/\ op = "create"
     /\ Len(arg.tags) = 1
     /\ arg.tags[1].key \in { "image", "APIC" })
    => LET b == arg.tags[1].value
           body == SubSeq(buffer, 21, Len(buffer))
           picture == readPictureFrame(body, FALSE, FALSE)
       IN  /\ SubSeq(buffer, 11, 14) = FrameIdBytes["APIC"]
           /\ picture.st = "ok"
           /\ picture.val.mime = IF Len(b) >= 3 /\ SubSeq(b, 1, 3) = << 255, 216, 255 >>
                                 THEN "jpeg" ELSE "png"
           /\ picture.val.type = [id |-> 3, name |-> "front cover"]
           /\ picture.val.imageBuffer = b
           /\ pc = "done" => /\ IsMapping(result.tags)
                             /\ result.tags.val.al["image"] = picture.val

\* an image that begins with two zero bytes, or the image FF D8 FF, was
\* written and read back
PictureRoundTripWitness ==
    /\ pc = "done" /\ op = "create"
    /\ Len(arg.tags) = 1
    /\ arg.tags[1].key = "image"
    /\ arg.tags[1].value \in { << 0, 0, 255 >>, << 255, 216, 255 >> }
    /\ result.tags.val.al["image"].imageBuffer = arg.tags[1].value

\* the file the write was called on starts with a valid tag: the signature,
\* a size field of four 7-bit bytes, and the whole tag inside the file
StartsWithTag(bytes) ==
    /\ Len(bytes) >= 10
    /\ SubSeq(bytes, 1, 3) = ID3
    /\ \A i \in 7..10 : bytes[i] < 128
    /\ 10 + decodeSize(SubSeq(bytes, 7, 10)) <= Len(bytes)

\* the ten bytes of a v2.4 tag header with size field n
HeaderOfSize(n) == << 73, 68, 51, 4, 0, 0 >> \o encodeSize(n)

\* C17: write(tags, path), for tags that create accepts, on a file that
\* starts with a valid tag of body size S, for new frames of N bytes: the file then holds a header whose
\* size field is S, the new frames, S - N zero bytes and the audio when
\* N <= S <= N + 10240, and otherwise a header of size N + 2048, the new
\* frames, 2048 zero bytes and the audio; reading the file returns the
\* tags that were written.
WriteKeepsTagAndAudio ==
    (op = "write" /\ arg.st = "ok" /\ StartsWithTag(arg.before))
    => LET S == decodeSize(SubSeq(arg.before, 7, 10))
           frames == SubSeq(create(arg.tags), 11, Len(create(arg.tags)))
           N == Len(frames)
           audio == SubSeq(arg.before, 11 + S, Len(arg.before))
       IN  /\ file = IF N <= S /\ S <= N + MaxReusedPadding
                     THEN HeaderOfSize(S) \o frames \o Zeros(S - N) \o audio
                     ELSE HeaderOfSize(N + DEFAULT_PADDING_SIZE) \o frames
                          \o Zeros(DEFAULT_PADDING_SIZE) \o audio
           /\ pc = "done" => result.tags = getTagsFromBuffer(create(arg.tags))

\* C18: write(tags, path), for tags that create accepts, on a file without
\* the signature 'ID3' in its first 25 bytes rewrites the file, whatever its bytes are: the file then
\* holds the new tag with a size field of N + 2048, 2048 zero bytes, and
\* every byte the file held before, in order.
WriteWithoutTagRewrites ==
    (op = "write" /\ arg.st = "ok" /\ IndexOf(ReadHeader(arg.before), ID3) = -1)
    => LET frames == SubSeq(create(arg.tags), 11, Len(create(arg.tags)))
       IN  file = HeaderOfSize(Len(frames) + DEFAULT_PADDING_SIZE) \o frames
                  \o Zeros(DEFAULT_PADDING_SIZE) \o arg.before

\* the alias of a key of tags, which is an alias or a frame identifier
AliasOfKey(key) ==
    IF key \in DOMAIN ID3v24Frames \cup DOMAIN SpecialFrames THEN key
    ELSE IF IsSpecialFrameName(key) THEN SpecialAliasOf(key)
    ELSE CHOOSE a \in DOMAIN ID3v24Frames : ID3v24Frames[a].key = key

ByAlias(tags) == [i \in 1..Len(tags) |-> Field(AliasOfKey(tags[i].key), tags[i].value)]

\* the raw view read from a buffer, empty when the buffer holds no tag
RawViewOf(buf) ==
    LET read == getTagsFromBuffer(buf)
    IN  IF IsMapping(read) THEN read.val.raw ELSE EmptyTags.raw

\* C19: reading the buffer update(tags, buffer) returns gives, for every
\* frame named in tags (by alias or by frame identifier), the value
\* supplied there, and for every other frame of the buffer the value it had
\* before the call: no existing frame is lost.
UpdateKeepsOrReplaces ==
    (pc = "done" /\ op = "update")
    => LET supplied == RawViewOf(create(ByAlias(arg.tags)))
           before == RawViewOf(arg.before)
       IN  /\ arg.st = "ok"
           /\ IsMapping(result.tags)
           /\ \A name \in DOMAIN supplied :
                 /\ name \in DOMAIN result.tags.val.raw
                 /\ result.tags.val.raw[name] = supplied[name]
           /\ \A name \in DOMAIN before \ DOMAIN supplied :
                 /\ name \in DOMAIN result.tags.val.raw
                 /\ result.tags.val.raw[name] = before[name]

\* the version string of the tag that was loaded
LoadedVersion == IF arg.version = 3 THEN "ID3v2.3" ELSE "ID3v2.4"

\* C20: in every mapping a read returns, for every text frame alias a of
\* the tag's version table whose frame identifier id is in the raw view,
\* the alias view holds the value of the raw view: result[a] =
\* result.raw[id], for v2.3 and v2.4 tags alike.
AliasViewEqualsRawView ==
    (pc = "done" /\ op = "loadFrames")
    => LET TFrames == getVersionedFrameDefinitions(LoadedVersion)
           tags == result.tags.val
       IN  /\ IsMapping(result.tags)
           /\ \A a \in DOMAIN TFrames :
                 FrameIdBytes[TFrames[a].key] \in DOMAIN tags.raw
                 => /\ a \in DOMAIN tags.al
                    /\ tags.al[a] = tags.raw[FrameIdBytes[TFrames[a].key]]


\* the raw view of the tag a file starts with, without the bytes after it
TagViewOf(bytes) ==
    RawViewOf(SubSeq(bytes, 1, Len(bytes) - Len(removeTagsFromBuffer(bytes))))

\* C21: the codec takes no lock.  When two update calls with callbacks on one
\* path both had their read answered with the file as it was before either
\* wrote, both callbacks get no error, and the file starts with the tag of the
\* call whose write request came last: the tag holds the fields of that call
\* and the frames the file had before, and the fields of the other call are
\* lost.
UnserializedUpdateLosesFields ==
    (pc = "done" /\ op = "updateAsync")
    => \A i \in Callers, j \in Callers :
          ( /\ i # j
            /\ calls[i].at = "done" /\ calls[j].at = "done"
            /\ calls[j].wrote
            /\ calls[i].read = arg.before /\ calls[j].read = arg.before )
          => LET supplied == RawViewOf(create(calls[j].tags))
                 before == RawViewOf(arg.before)
                 final == TagViewOf(file)
                 tag == calls[j].completeTag
             IN  /\ calls[i].err = "null" /\ calls[j].err = "null"
                 /\ Len(file) >= Len(tag) /\ SubSeq(file, 1, Len(tag)) = tag
                 /\ DOMAIN final = DOMAIN supplied \cup DOMAIN before
                 /\ \A name \in DOMAIN supplied : final[name] = supplied[name]
                 /\ \A name \in DOMAIN before \ DOMAIN supplied : final[name] = before[name]
                 /\ IsMapping(result.tags) => result.tags.val.raw = final

\* the read of both calls came before both writes, the first call set a
\* comment and the second, which wrote last, lyrics: the file holds the
\* lyrics and no comment
UnserializedUpdateLosesFieldsWitness ==
    /\ pc = "done" /\ op = "updateAsync"
    /\ arg.before = NoFile
    /\ calls[1].tags = AsyncComment /\ calls[2].tags = AsyncLyrics
    /\ calls[1].at = "done" /\ calls[2].at = "done"
    /\ calls[1].err = "null" /\ calls[2].err = "null"
    /\ calls[2].wrote /\ calls[2].last
    /\ file = calls[2].rewriteFile
    /\ calls[1].read = arg.before /\ calls[2].read = arg.before
    /\ calls[1].completeTag # calls[2].completeTag
    /\ IsMapping(result.tags)
    /\ FrameIdBytes["USLT"] \in DOMAIN result.tags.val.raw
    /\ FrameIdBytes["COMM"] \notin DOMAIN result.tags.val.raw

\* C22: the frame splitter reads the size field of a frame as a plain
\* 32-bit big-endian integer in a v2.3 tag and as a synchronization-safe
\* integer in a v2.4 tag, whatever the flags of the frame: a frame whose
\* size read that way fits the buffer is returned with a body of that size,
\* one that does not fit ends the split.
FrameSizeByVersion ==
    (pc = "done" /\ op = "splitSized")
    => LET size == IF arg.version = "ID3v2.4" THEN decodeSize(SizedField)
                   ELSE IntOf(ReadUIntBE(SizedField))
       IN  /\ result.err = "none"
           /\ IF size > arg.present THEN result.frames = << >>
              ELSE /\ result.frames # << >>
                   /\ Len(result.frames[1].body) = size

\* the body of a frame with every byte pair FF 00 replaced by FF
Resynchronised(f) == [f EXCEPT !.body = ReplaceAll(f.body, << 255, 0 >>, << 255 >>)]

\* C23: for every frame marked unsynchronized, of whatever type, the value
\* the read gives is the value decoded from the body with every byte pair
\* FF 00 replaced by FF, as an unmarked frame with that body is decoded.
UnsynchronizedBodyFiltered ==
    (pc = "done" /\ op = "loadMarked")
    => result.tags = getTagsFromFrames(<< Resynchronised(arg.frames[1]) >>, LoadedVersion)

\* the values of a text value each split on a separator, empty parts left out
RECURSIVE SplitEach(_, _)
SplitEach(values, separator) ==
    IF values = << >> THEN << >>
    ELSE FilterNonEmpty(SplitOn(Head(values), separator)) \o SplitEach(Tail(values), separator)

EverySplit(value, separator) ==
    LET vals == SplitEach(value.v, separator)
    IN  IF Len(vals) = 1 THEN Str(vals[1]) ELSE Arr(vals)

\* C24: in a v2.3 tag, the value under the alias of a text frame whose field
\* defines a separator is the value of the null-byte split with every one of
\* its strings, whether one or several, split again on the separator; in a
\* v2.4 tag the value under the alias is the value of the null-byte split.
SeparatorSplitsEveryValue ==
    (pc = "done" /\ op = "loadFrames")
    => LET tags == result.tags.val
       IN  /\ IsMapping(result.tags)
           /\ \A a \in DOMAIN ID3v23Frames :
                 LET id == FrameIdBytes[ID3v23Frames[a].key]
                     separator == ID3v23Frames[a].multiValueSeparator
                 IN  (separator # << >> /\ id \in DOMAIN tags.raw)
                     => /\ a \in DOMAIN tags.al
                        /\ tags.al[a] = IF arg.version = 3
                                        THEN EverySplit(tags.raw[id], separator)
                                        ELSE tags.raw[id]

\* the body of the first frame of the tag in buffer
FirstFrameBody == SliceFrom(buffer, 20)

\* C25: in every COMM and USLT frame create makes, the language field is the
\* three bytes after the encoding byte: 'eng' when the language is absent,
\* its first three characters when it is longer, the language followed by
\* padding when it is shorter; the description starts at body offset 4.
LanguageIsThreeBytes ==
    (/\ pc \in { "ready", "done" } /\ op = "create"
     /\ Len(arg.tags) = 1
     /\ arg.tags[1].key \in { "comment", "COMM", "unsynchronisedLyrics", "USLT" }
     /\ arg.tags[1].value.text # << >>)
    => LET c == arg.tags[1].value
           language == IF c.language = << >> THEN << 101, 110, 103 >>
                       ELSE SubSeq(c.language, 1, IF Len(c.language) > 3 THEN 3
                                                  ELSE Len(c.language))
       IN  /\ Slice(FirstFrameBody, 1, 1 + Len(language)) = language
           /\ SliceFrom(FirstFrameBody, 4)
                = createContentDescriptor(c.shortText) \o createText(c.text)

\* C26: removeTagsFromBuffer removes the bytes of the tag and nothing else.
\* Of a buffer with a whole tag of version 3 or 4 at offset p with body size
\* S it returns the p bytes before the signature followed by the bytes from
\* offset p + 10 + S on; a buffer without a signature it returns unchanged;
\* and of write(tags, data) with data that holds no tag it returns data.
RemoveTagsKeepsTheRest ==
    (pc = "stripped")
    => LET p == getFramePosition(buffer)
           S == getTagHeaderSize(buffer)
       IN  /\ p = -1 => result.removed = buffer
           /\ (/\ p # -1 /\ S >= 0
               /\ getTagVersion(buffer) # "unknown"
               /\ p + 10 + S <= Len(buffer))
              => result.removed = SubSeq(buffer, 1, p) \o SliceFrom(buffer, p + 10 + S)
           /\ (op = "writeBuffer" /\ getFramePosition(arg.before) = -1)
              => result.removed = arg.before

\* the position of the i-th frame of frames in a buffer that holds them one
\* after the other, each behind a header of h bytes
RECURSIVE PositionOf(_, _, _)
PositionOf(frames, i, h) ==
    IF i = 1 THEN 0
    ELSE PositionOf(frames, i - 1, h) + h + Len(frames[i - 1].body)

\* C27: every frame getFramesFromID3Body returns lies inside the buffer: the
\* i-th frame was read at the end of the one before it, and its header of h
\* bytes and its body of s bytes end at or before the end of the buffer, so
\* that the body is the s bytes of the buffer behind the header.
FramesInsideBuffer ==
    (pc = "done" /\ op \in { "split", "splitSized" })
    => LET h == getTextFrameHeaderSize(arg.version)
           frames == result.frames
       IN  \A i \in 1..Len(frames) :
              LET pos == PositionOf(frames, i, h)
                  s == Len(frames[i].body)
              IN  /\ pos + h + s <= Len(buffer)
                  /\ frames[i].body = Slice(buffer, pos + h, pos + h + s)

\* no string of a text value holds a null character or the sentinel
CleanText(x) ==
    \A i \in 1..Len(x.v) :
        /\ \A j \in 1..Len(x.v[i]) : x.v[i][j] # 0
        /\ IndexOf(x.v[i], multiValueSplitter) = -1

CleanView(view, txxx) ==
    \A name \in DOMAIN view :
        IF name = txxx THEN \A d \in DOMAIN view[name].props : CleanText(view[name].props[d])
        ELSE "arr" \in DOMAIN view[name] => CleanText(view[name])

\* C28: the frames of the tag hold no sentinel, so no string a read returns
\* for a text or TXXX frame holds the sentinel or a null character: every
\* null byte of the text, a leading one included, is a split point.
NoSentinelInValues ==
    (pc = "done" /\ op = "loadFrames")
    => /\ IsMapping(result.tags)
       /\ CleanView(result.tags.val.raw, TXXX)
       /\ CleanView(result.tags.val.al, "userDefined")

\* the identifiers other than TXXX that several frames of frames have
RepeatedNames(frames) ==
    { frames[i].name : i \in { x \in DOMAIN frames :
        /\ frames[x].name # TXXX
        /\ \E y \in DOMAIN frames : y # x /\ frames[y].name = frames[x].name } }

\* the aliases of a text frame identifier in the table of the version
AliasesOf(name, version) ==
    LET TFrames == getVersionedFrameDefinitions(version)
    IN  { key \in DOMAIN TFrames : FrameIdBytes[TFrames[key].key] = name }

\* C29: of several frames with one identifier other than TXXX the last one
\* in tag order wins: the result of the read holds, under the identifier and
\* under its alias, the decoded value of the last such frame only.
LastFrameWins ==
    (pc = "done" /\ op \in { "create", "loadFrames" } /\ IsMapping(result.tags))
    => LET frames == BodyFramesOf(buffer)
           view == result.tags.val
       IN  \A name \in RepeatedNames(frames) :
              LET last == LastFrameOf(frames, name)
              IN  IF name[1] = 84
                  THEN LET alone == TextFrameStep(EmptyTags, last, result.version)
                       IN  /\ view.raw[name] = DecodeTextBody(last.body)
                           /\ \A key \in AliasesOf(name, result.version) :
                                 view.al[key] = alone.al[key]
                  ELSE \A key \in DOMAIN SpecialFrames :
                          FrameIdBytes[SpecialFrames[key]] = name
                          => /\ readSpecial(key, last).st = "ok"
                             /\ view.raw[name] = readSpecial(key, last).val
                             /\ view.al[key] = readSpecial(key, last).val

\* C30: createPopularimeterFrame and create never raise for a numeric
\* counter: for every counter, those of 2^32 and more included, and an email,
\* a POPM frame is returned whose last four bytes are a counter field of
\* bytes, and create returns the tag that holds it.
PopularimeterNeverRaises ==
    (/\ pc = "done" /\ op = "createPopularimeter"
     /\ arg.popularimeter.email # << >>
     /\ ~arg.popularimeter.counter.nan)
    => LET frame == result.frame
           m == Len(frame)
       IN  /\ frame # RangeError
           /\ m >= 10 + 4
           /\ SubSeq(frame, 1, 4) = FrameIdBytes["POPM"]
           /\ \A i \in (m - 3)..m : frame[i] \in 0..255
           /\ result.tag.st = "ok"
           /\ SubSeq(result.tag.val, 11, Len(result.tag.val)) = frame

====
